---- MODULE Spec2Model ----
(***************************************************************************)
(* A model of proboscis-linter's Python layer: the AutoFixer               *)
(* (auto_fix.py), the configuration loader (config.py) and the wrapper     *)
(* around the Rust engine (rust_linter.py).                                *)
(*                                                                         *)
(* Text is modelled as a sequence of lexemes: every whitespace character   *)
(* is a lexeme of its own (" ", "\t", "\r", "\n"), every other lexeme is   *)
(* a run of non-blank characters ("@", "def", "pytest.mark.", ...).  The   *)
(* string operations of the code (lstrip, strip, startswith, slicing,      *)
(* concatenation) are computed on these sequences.                         *)
(* Optional[T] is modelled as a sequence of length 0 (None) or 1.          *)
(***************************************************************************)
EXTENDS Integers, Sequences, FiniteSets, TLC

VARIABLES
    disk,           \* file path -> content, a sequence of lines as stored
    perm,           \* file path -> "rw" | "noread" | "nowrite"
    applied_fixes,  \* AutoFixer.applied_fixes: file path -> count (a defaultdict)
    returned,       \* the value returned by the last apply_fixes call
    raised,         \* TRUE when the last apply_fixes call let an exception escape
    args,           \* the violations list passed to the last apply_fixes call
    orig,           \* the disk as it was before the last apply_fixes call
    calls,          \* number of apply_fixes calls made on this AutoFixer
    linted,         \* Some(violations) of the last lint of the file set, or None
    cfgFile,        \* the pyproject.toml handed to ConfigLoader.load_from_file
    loaded,         \* Some(outcome of the last load_from_file call), or None
    wrapperConfig,  \* RustLinterWrapper._config: the rules table of its configuration
    lintCall,       \* Some(record of the last lint_* call of the wrapper), or None
    cliConfig,      \* the configuration handed to ConfigLoader.merge_cli_options
    cliOptions,     \* the keyword arguments handed to merge_cli_options
    merged,         \* Some(outcome of the last merge_cli_options call), or None
    tree,           \* directory -> the pyproject.toml it holds
    startAt,        \* the resolved start_path of find_config_file / PATH of the CLI
    current,        \* find_config_file: the directory the walk is at
    found,          \* find_config_file: None while walking, Some(returned value) after
    argv,           \* the command line of a CLI run
    answer,         \* what the engine would answer to the CLI run's lint call
    cliRun,         \* Some(outcome of the CLI run), or None
    project,        \* the project a lint run reads: source modules, test modules
    runs,           \* strict_mode -> Some(list returned by lint_project), or None
    stdin,          \* the text on the stop hook's standard input
    subproc,        \* what subprocess.run does when the stop hook calls it
    hook,           \* the stop hook's position, its data and its subprocess result
    printed,        \* the JSON documents the stop hook has printed
    exit_status,    \* Some(exit status of the stop hook), or None while it runs
    passes,         \* fix pass -> its position, its violations and its lines in memory
    machine         \* the engine's run: its phase, the state of each file, the list emitted

fixVars == <<disk, perm, applied_fixes, returned, raised, args, orig, calls, linted>>
cfgVars == <<cfgFile, loaded>>
lintVars == <<wrapperConfig, lintCall>>
mergeVars == <<cliConfig, cliOptions, merged>>
findVars == <<tree, startAt, current, found>>
runVars == <<argv, answer, cliRun>>
cliVars == <<mergeVars, findVars, runVars>>
engineVars == <<project, runs>>
hookVars == <<stdin, subproc, hook, printed, exit_status>>
lateVars == <<hookVars, passes, machine>>
vars == <<fixVars, cfgVars, lintVars, cliVars, engineVars, lateVars>>

\* ----------------------------------------------------------------- bounds
MaxBlocks == 2      \* blocks (a function with its decorators, or filler) per file
MaxFixes == 2       \* violations per apply_fixes call
MaxFixLine == 3     \* largest fix_line a caller passes

\* --------------------------------------------------------------- Optional
None == <<>>
Some(x) == <<x>>

\* the parts of the state a scenario does not use
NoFixer ==
    /\ disk = <<>> /\ perm = <<>> /\ applied_fixes = <<>> /\ returned = None
    /\ raised = FALSE /\ args = <<>> /\ orig = <<>> /\ calls = 0 /\ linted = None
NoLoader == cfgFile = [state |-> "missing", data |-> <<>>] /\ loaded = None
NoWrapper == wrapperConfig = <<>> /\ lintCall = None
NoMerge == cliConfig = <<>> /\ cliOptions = <<>> /\ merged = None
NoFind == tree = <<>> /\ startAt = <<>> /\ current = <<>> /\ found = None
NoRun == argv = <<>> /\ answer = <<>> /\ cliRun = None
NoCli == NoMerge /\ NoFind /\ NoRun
NoEngine == project = <<>> /\ runs = <<>>
NoHook ==
    /\ stdin = <<>> /\ subproc = <<>> /\ hook = <<>> /\ printed = <<>> /\ exit_status = None
NoLate == NoHook /\ passes = <<>> /\ machine = <<>>

\* ------------------------------------------------------------ str methods
WS == {" ", "\t", "\r", "\n"}

RECURSIVE lstrip(_)
lstrip(s) ==
    IF s # <<>> /\ Head(s) \in WS THEN lstrip(Tail(s)) ELSE s

RECURSIVE rstrip(_)
rstrip(s) ==
    IF s # <<>> /\ s[Len(s)] \in WS THEN rstrip(SubSeq(s, 1, Len(s) - 1)) ELSE s

strip(s) == rstrip(lstrip(s))

startswith(s, lexeme) == s # <<>> /\ Head(s) = lexeme

\* truthiness of an Optional field: None, "" and 0 are falsy
TruthyName(opt) == opt # None /\ opt[1] # ""
TruthyStr(opt) == opt # None /\ opt[1] # <<>>
TruthyInt(opt) == opt # None /\ opt[1] # 0

\* ------------------------------------------------------------- file model
\* open(path, 'r').readlines() with universal newlines: "\r\n" reads as "\n"
ReadLine(raw) ==
    IF Len(raw) >= 2 /\ raw[Len(raw) - 1] = "\r" /\ raw[Len(raw)] = "\n"
    THEN SubSeq(raw, 1, Len(raw) - 2) \o <<"\n">>
    ELSE raw

readlines(content) == [i \in 1..Len(content) |-> ReadLine(content[i])]

\* ---------------------------------------------------------------- AutoFixer
\* mutant: strip() where the code has lstrip()
_get_indentation_strip(line) ==
    LET stripped == strip(line)
    IN  IF stripped # <<>>
        THEN SubSeq(line, 1, Len(line) - Len(stripped))
        ELSE <<>>

_get_indentation(line) ==
    LET stripped == lstrip(line)
    IN  IF stripped # <<>>
        THEN SubSeq(line, 1, Len(line) - Len(stripped))
        ELSE <<>>

\* the while loop of _apply_add_decorator; insert_idx is the 0-based Python
\* index, so Python's lines[insert_idx - 1] is lines[insert_idx] here
RECURSIVE WalkUp(_, _)
WalkUp(lines, insert_idx) ==
    IF insert_idx > 0 /\ startswith(strip(lines[insert_idx]), "@")
    THEN WalkUp(lines, insert_idx - 1)
    ELSE insert_idx

\* list.insert(idx, x) for 0 <= idx <= len
ListInsert(lines, idx, x) ==
    SubSeq(lines, 1, idx) \o <<x>> \o SubSeq(lines, idx + 1, Len(lines))

\* mutant: the 1-based line_number used as the 0-based insertion index
_apply_add_decorator_below(lines, violation) ==
    LET func_line_idx == violation.line_number - 1
    IN  IF func_line_idx < Len(lines)
        THEN LET indent == _get_indentation(lines[func_line_idx + 1])
                 decorator_line == indent \o violation.fix_content[1] \o <<"\n">>
             IN  ListInsert(lines, violation.line_number, decorator_line)
        ELSE lines

\* lines[func_line_idx] raises IndexError for an index below -len(lines)
Raises(lines, violation) == 1 - violation.line_number > Len(lines)

\* Python's index arithmetic: a negative index counts from the end of the
\* list, list.insert clamps it at 0
PyIndex(lines, idx) == IF idx < 0 THEN Len(lines) + idx ELSE idx
PyInsertIndex(lines, idx) == IF PyIndex(lines, idx) < 0 THEN 0 ELSE PyIndex(lines, idx)

_apply_add_decorator(lines, violation) ==
    LET func_line_idx == violation.line_number - 1
    IN  IF func_line_idx < Len(lines)
        THEN LET func_line == lines[PyIndex(lines, func_line_idx) + 1]
                 indent == _get_indentation(func_line)
                 insert_idx == IF func_line_idx > 0 THEN WalkUp(lines, func_line_idx)
                               ELSE func_line_idx
                 decorator_line == indent \o violation.fix_content[1] \o <<"\n">>
             IN  ListInsert(lines, PyInsertIndex(lines, insert_idx), decorator_line)
        ELSE lines

\* sorted(violations, key=lambda v: v.fix_line, reverse=True): stable, so
\* violations with equal keys keep their input order
RECURSIVE InsertDesc(_, _)
InsertDesc(sorted, v) ==
    IF sorted = <<>> THEN <<v>>
    ELSE IF Head(sorted).fix_line[1] >= v.fix_line[1]
         THEN <<Head(sorted)>> \o InsertDesc(Tail(sorted), v)
         ELSE <<v>> \o sorted

RECURSIVE SortedByFixLineDesc(_)
SortedByFixLineDesc(violations) ==
    IF violations = <<>> THEN <<>>
    ELSE InsertDesc(SortedByFixLineDesc(SubSeq(violations, 1, Len(violations) - 1)),
                    violations[Len(violations)])

\* the "for violation in sorted_violations" loop: the lines in memory and the
\* number n of increments of applied_fixes when the loop ends or raises
RECURSIVE ApplyLoop(_, _, _)
ApplyLoop(lines, sorted_violations, n) ==
    IF sorted_violations = <<>> THEN [exc |-> FALSE, lines |-> lines, n |-> n]
    ELSE LET violation == Head(sorted_violations)
         IN  IF violation.fix_type = Some("add_decorator")
             THEN IF Raises(lines, violation)
                  THEN [exc |-> TRUE, lines |-> lines, n |-> n]
                  ELSE ApplyLoop(_apply_add_decorator(lines, violation),
                                 Tail(sorted_violations), n + 1)
             ELSE ApplyLoop(lines, Tail(sorted_violations), n)

\* the lines after the loop
ApplyEach(lines, sorted_violations) == ApplyLoop(lines, sorted_violations, 0).lines

\* defaultdict(int) access: a missing key reads as 0
Count(applied, path) == IF path \in DOMAIN applied THEN applied[path] ELSE 0

\* applied_fixes[path] += n, creating the key (n = 0 is the bare read of
\* applied_fixes[path] in the closing log message)
Bump(applied, path, n) ==
    [p \in (DOMAIN applied) \cup {path} |->
        IF p = path THEN Count(applied, path) + n ELSE applied[p]]

\* _apply_fixes_to_file: the outcome is the new disk, the new counter map and
\* whether an exception left the method
\* mutant: the lines are written back after every fix
_apply_fixes_to_file_eager(fs, pm, applied, file_path, violations) ==
    IF pm[file_path] = "noread"
    THEN [exc |-> TRUE, disk |-> fs, applied |-> applied]
    ELSE LET loop == ApplyLoop(readlines(fs[file_path]), SortedByFixLineDesc(violations), 0)
             counted == IF loop.n > 0 THEN Bump(applied, file_path, loop.n) ELSE applied
         IN  IF pm[file_path] = "nowrite"
             THEN [exc |-> TRUE, disk |-> fs, applied |-> counted]
             ELSE [exc |-> loop.exc,
                   disk |-> [fs EXCEPT ![file_path] = loop.lines],
                   applied |-> IF loop.exc THEN counted ELSE Bump(counted, file_path, 0)]

_apply_fixes_to_file(fs, pm, applied, file_path, violations) ==
    IF pm[file_path] = "noread"
    THEN [exc |-> TRUE, disk |-> fs, applied |-> applied]
    ELSE LET lines == readlines(fs[file_path])
             sorted_violations == SortedByFixLineDesc(violations)
             loop == ApplyLoop(lines, sorted_violations, 0)
             counted == IF loop.n > 0 THEN Bump(applied, file_path, loop.n) ELSE applied
         IN  IF loop.exc \/ pm[file_path] = "nowrite"
             THEN [exc |-> TRUE, disk |-> fs, applied |-> counted]
             ELSE [exc |-> FALSE,
                   disk |-> [fs EXCEPT ![file_path] = loop.lines],
                   applied |-> Bump(counted, file_path, 0)]

HasFixInfo(v) ==
    TruthyName(v.fix_type) /\ TruthyStr(v.fix_content) /\ TruthyInt(v.fix_line)

\* keys of violations_by_file in insertion order
RECURSIVE GroupKeys(_, _)
GroupKeys(violations, seen) ==
    IF violations = <<>> THEN <<>>
    ELSE LET v == Head(violations)
         IN  IF HasFixInfo(v) /\ v.file_path \notin seen
             THEN <<v.file_path>> \o GroupKeys(Tail(violations), seen \cup {v.file_path})
             ELSE GroupKeys(Tail(violations), seen)

GroupOf(violations, path) ==
    SelectSeq(violations, LAMBDA v : HasFixInfo(v) /\ v.file_path = path)

\* mutant: no try/except, the exception leaves apply_fixes
try_except_none(r) == r

\* the try/except Exception around one file: whatever _apply_fixes_to_file
\* raised is logged and swallowed, its partial effects stay
try_except(r) == [r EXCEPT !.exc = FALSE]

\* the "for file_path, file_violations in violations_by_file.items()" loop
RECURSIVE FileLoop(_, _, _, _)
FileLoop(st, pm, keys, violations) ==
    IF keys = <<>> \/ st.exc THEN st
    ELSE FileLoop(try_except(_apply_fixes_to_file(st.disk, pm, st.applied, Head(keys),
                                                  GroupOf(violations, Head(keys)))),
                  pm, Tail(keys), violations)

\* mutant: every call counts from an empty map
apply_fixes_result_fresh(fs, pm, applied, violations) ==
    FileLoop([exc |-> FALSE, disk |-> fs, applied |-> <<>>],
             pm, GroupKeys(violations, {}), violations)

\* AutoFixer.apply_fixes as a function of the state it reads
apply_fixes_result(fs, pm, applied, violations) ==
    FileLoop([exc |-> FALSE, disk |-> fs, applied |-> applied],
             pm, GroupKeys(violations, {}), violations)

apply_fixes(violations) ==
    LET r == apply_fixes_result(disk, perm, applied_fixes, violations)
    IN  /\ disk' = r.disk
        /\ applied_fixes' = r.applied
        /\ raised' = r.exc
        /\ returned' = IF r.exc THEN None ELSE Some(r.applied)
        /\ args' = violations
        /\ orig' = disk
        /\ calls' = calls + 1
        /\ UNCHANGED <<perm, cfgVars, lintVars, cliVars, engineVars, lateVars>>

\* ------------------------------------------------- source text of a test file
UnitFile == "test/unit/test_a.py"

Indents == {<<>>, <<" ", " ">>}

DefLine(ind) == ind \o <<"def", "\n">>              \* "def test_x():"
FixtureLine(ind) == ind \o <<"@", "pytest.fixture", "\n">>
OpenLine(ind) == ind \o <<"@", "parametrize(", "\n">>   \* a decorator call left open
CloseLine(ind) == ind \o <<")", "\n">>               \* ... and closed on the next line
MarkLine(ind, tier) == ind \o <<"@", "pytest.mark.", tier, "\n">>
PassLine == <<" ", " ", " ", " ", "pass", "\n">>

\* a block is a function header with its decorator stack, or a body line
Blocks ==
    {<<PassLine>>}
    \cup {<<DefLine(ind)>> : ind \in Indents}
    \cup {<<FixtureLine(ind), DefLine(ind)>> : ind \in Indents}
    \cup {<<OpenLine(ind), CloseLine(ind), DefLine(ind)>> : ind \in Indents}
    \cup {<<MarkLine(ind, "unit"), DefLine(ind)>> : ind \in Indents}

RECURSIVE FilesOf(_)
FilesOf(n) ==
    IF n = 0 THEN {<<>>}
    ELSE FilesOf(n - 1) \cup {f \o b : f \in FilesOf(n - 1), b \in Blocks}

UnitMarker == <<"@", "pytest.mark.", "unit">>

PL004Name == <<"PL004", ":", "require-test-markers">>

\* ------------------------------------------- Marker Validator of the engine
IsDefLine(line) == startswith(lstrip(line), "def")
IsDecoratorStart(line) == startswith(strip(line), "@")
IsContinuation(line) == startswith(strip(line), ")")

\* first line of the decorator stack of the def at line i (1-based), i itself
\* when the def is undecorated; a stack is made of "@" lines and of the
\* continuation lines of a decorator call that spans several lines
RECURSIVE StackWalk(_, _, _)
StackWalk(lines, j, top) ==
    IF j >= 1 /\ IsDecoratorStart(lines[j]) THEN StackWalk(lines, j - 1, j)
    ELSE IF j >= 1 /\ IsContinuation(lines[j]) THEN StackWalk(lines, j - 1, top)
    ELSE top

StackTop(lines, i) == StackWalk(lines, i - 1, i)

\* marker names of the def at line i: @pytest.mark.<name> and @mark.<name>
Markers(lines, i) ==
    {strip(lines[k])[3] : k \in {k \in StackTop(lines, i)..(i - 1) :
        /\ IsDecoratorStart(lines[k])
        /\ Len(strip(lines[k])) >= 3
        /\ strip(lines[k])[2] \in {"pytest.mark.", "mark."}}}

TierOf(path) == IF path = UnitFile THEN "unit" ELSE "general"

PL004Violation(path, lines, i) ==
    [rule_name |-> PL004Name,
     file_path |-> path,
     line_number |-> i,
     fix_type |-> Some("add_decorator"),
     fix_content |-> Some(<<"@", "pytest.mark.", TierOf(path)>>),
     fix_line |-> Some(StackTop(lines, i))]

\* one violation for each test function of a tiered file that lacks its marker
RECURSIVE MarkerScan(_, _, _)
MarkerScan(path, lines, i) ==
    IF i > Len(lines) THEN <<>>
    ELSE IF IsDefLine(lines[i]) /\ TierOf(path) \notin Markers(lines, i)
         THEN <<PL004Violation(path, lines, i)>> \o MarkerScan(path, lines, i + 1)
         ELSE MarkerScan(path, lines, i + 1)

check_test_markers(path, content) ==
    IF TierOf(path) = "general" THEN <<>> ELSE MarkerScan(path, readlines(content), 1)

\* what a caller may pass for one file: add_decorator fixes on any line
CallerViolations(content) ==
    [rule_name : {PL004Name},
     file_path : {UnitFile},
     line_number : 1..(Len(content) + 1),
     fix_type : {Some("add_decorator")},
     fix_content : {Some(UnitMarker)},
     fix_line : {Some(k) : k \in 1..MaxFixLine}]

RECURSIVE ListsOf(_, _)
ListsOf(S, n) ==
    IF n = 0 THEN {<<>>}
    ELSE ListsOf(S, n - 1) \cup {Append(l, v) : l \in ListsOf(S, n - 1), v \in S}

\* ------------------------------------------------------- the fixer on one file
InitEdit ==
    /\ disk \in [{UnitFile} -> FilesOf(MaxBlocks)]
    /\ perm = [f \in {UnitFile} |-> "rw"]
    /\ applied_fixes = <<>>
    /\ returned = None
    /\ raised = FALSE
    /\ args = <<>>
    /\ orig = disk
    /\ calls = 0
    /\ linted = None
    /\ NoLoader /\ NoWrapper /\ NoCli /\ NoEngine /\ NoLate

\* a caller hands a list of violations to a fresh AutoFixer
CallerFix ==
    /\ calls = 0
    /\ linted = None
    /\ \E vs \in ListsOf(CallerViolations(disk[UnitFile]), MaxFixes) : apply_fixes(vs)
    /\ UNCHANGED linted

\* the lint pass of a lint, fix, lint run
LintMarkers ==
    /\ calls = 0
    /\ linted = None
    /\ linted' = Some(check_test_markers(UnitFile, disk[UnitFile]))
    /\ UNCHANGED <<disk, perm, applied_fixes, returned, raised, args, orig, calls>>
    /\ UNCHANGED <<cfgVars, lintVars, cliVars, engineVars, lateVars>>

\* the fix pass: the violations of the lint pass go to a fresh AutoFixer
FixLinted ==
    /\ calls = 0
    /\ linted # None
    /\ apply_fixes(linted[1])
    /\ UNCHANGED linted

NextEdit == CallerFix \/ LintMarkers \/ FixLinted

SpecEdit == InitEdit /\ [][NextEdit]_vars

\* -------------------------------------------------------------- claims C1-C3
Lines0 == readlines(orig[UnitFile])

AllAddDecorator(vs) ==
    \A i \in 1..Len(vs) : HasFixInfo(vs[i]) /\ vs[i].fix_type = Some("add_decorator")

\* every fix names the def line of a function, no two the same function
TargetDistinctFunctions(vs, lines) ==
    /\ \A i \in 1..Len(vs) :
          vs[i].line_number <= Len(lines) /\ IsDefLine(lines[vs[i].line_number])
    /\ \A i, j \in 1..Len(vs) : i # j => vs[i].line_number # vs[j].line_number

\* where one fix, applied on its own to the original lines, puts its line
OwnIndex(lines, v) == WalkUp(lines, v.line_number - 1)
OwnLine(lines, v) == _apply_add_decorator(lines, v)[OwnIndex(lines, v) + 1]

\* the original lines with every fix's own line at its own place: the fix
\* with the topmost place is put in last, so nothing below it moves it
RECURSIVE EachOnItsOwn(_, _, _)
EachOnItsOwn(lines, vs, todo) ==
    IF todo = {} THEN lines
    ELSE LET i == CHOOSE i \in todo :
                     \A j \in todo : OwnIndex(lines, vs[j]) >= OwnIndex(lines, vs[i])
         IN  ListInsert(EachOnItsOwn(lines, vs, todo \ {i}),
                        OwnIndex(lines, vs[i]),
                        OwnLine(lines, vs[i]))

\* C1: several add_decorator fixes on distinct functions of one file leave the
\* file as if each fix had been applied on its own to the original lines
C1_NoFixShiftsAnother ==
    (calls = 1 /\ ~raised /\ Len(args) >= 2 /\ TargetDistinctFunctions(args, Lines0))
        => disk[UnitFile] = EachOnItsOwn(Lines0, args, 1..Len(args))

HasStack(lines, i) == StackTop(lines, i) < i

\* C2: with decorators above the target function, the new line goes above the
\* topmost line of the whole stack and nothing else in the file moves
C2_AboveWholeStack ==
    (calls = 1 /\ Len(args) = 1 /\ TargetDistinctFunctions(args, Lines0)
        /\ HasStack(Lines0, args[1].line_number))
        => LET top == StackTop(Lines0, args[1].line_number)
           IN  /\ Len(disk[UnitFile]) = Len(Lines0) + 1
               /\ disk[UnitFile] = ListInsert(Lines0, top - 1, disk[UnitFile][top])
               /\ strip(disk[UnitFile][top]) = args[1].fix_content[1]

RECURSIVE LeadingWhitespace(_)
LeadingWhitespace(s) ==
    IF s # <<>> /\ Head(s) \in {" ", "\t"}
    THEN <<Head(s)>> \o LeadingWhitespace(Tail(s))
    ELSE <<>>

\* the places where one line was inserted into old to give new
InsertedAt(old, new) ==
    {k \in 1..Len(new) : Len(new) = Len(old) + 1 /\ new = ListInsert(old, k - 1, new[k])}

\* C3: the inserted decorator line has exactly the leading whitespace of the
\* def line it was added for
C3_SameIndentation ==
    (calls = 1 /\ Len(args) = 1 /\ TargetDistinctFunctions(args, Lines0))
        => /\ InsertedAt(Lines0, disk[UnitFile]) # {}
           /\ \A k \in InsertedAt(Lines0, disk[UnitFile]) :
                 /\ LeadingWhitespace(disk[UnitFile][k])
                        = LeadingWhitespace(Lines0[args[1].line_number])
                 /\ strip(disk[UnitFile][k]) = args[1].fix_content[1]

C3_Witness ==
    /\ calls = 1 /\ Len(args) = 1
    /\ TargetDistinctFunctions(args, Lines0)
    /\ LeadingWhitespace(Lines0[args[1].line_number]) = <<" ", " ">>
    /\ HasStack(Lines0, args[1].line_number)
    /\ InsertedAt(Lines0, disk[UnitFile]) # {}

\* C7: once the fixer has applied the fixes of a lint pass, a second lint pass
\* reports no PL004 violation for the file
C7_MarkerRoundTrip ==
    (calls = 1 /\ linted # None /\ ~raised)
        => check_test_markers(UnitFile, disk[UnitFile]) = <<>>

C7_Witness ==
    /\ calls = 1 /\ linted # None /\ Len(linted[1]) = 2
    /\ \E i \in 1..2 : HasStack(Lines0, linted[1][i].line_number)
    /\ disk[UnitFile] # orig[UnitFile]

\* ------------------------------------------- the fixer on several files, I/O
OtherFile == "test/unit/test_b.py"
IOFiles == {UnitFile, OtherFile}

MaxIOFixes == 2     \* violations per apply_fixes call in the I/O scenarios

\* the fix descriptors a violation may carry: none, a complete add_decorator,
\* a complete descriptor of another kind, and incomplete ones
Descriptors ==
    {[fix_type |-> None, fix_content |-> None, fix_line |-> None],
     [fix_type |-> Some("add_decorator"), fix_content |-> Some(UnitMarker), fix_line |-> Some(1)],
     [fix_type |-> Some("replace_line"), fix_content |-> Some(UnitMarker), fix_line |-> Some(1)],
     [fix_type |-> Some("add_decorator"), fix_content |-> Some(UnitMarker), fix_line |-> None],
     [fix_type |-> Some("add_decorator"), fix_content |-> Some(<<>>), fix_line |-> Some(1)],
     [fix_type |-> Some("add_decorator"), fix_content |-> Some(UnitMarker), fix_line |-> Some(0)]}

IOViolations ==
    {[rule_name |-> PL004Name, file_path |-> f, line_number |-> n,
      fix_type |-> d.fix_type, fix_content |-> d.fix_content, fix_line |-> d.fix_line] :
        f \in IOFiles, n \in {1, 3}, d \in Descriptors}

InitIO ==
    /\ disk = [f \in IOFiles |->
                 IF f = UnitFile THEN <<DefLine(<<>>)>> ELSE <<<<"def", "\r", "\n">>>>]
    /\ perm \in [IOFiles -> {"rw", "noread", "nowrite"}]
    /\ applied_fixes = <<>>
    /\ returned = None
    /\ raised = FALSE
    /\ args = <<>>
    /\ orig = disk
    /\ calls = 0
    /\ linted = None
    /\ NoLoader /\ NoWrapper /\ NoCli /\ NoEngine /\ NoLate

CallerFixIO ==
    /\ calls = 0
    /\ \E vs \in ListsOf(IOViolations, MaxIOFixes) : apply_fixes(vs)
    /\ UNCHANGED linted

NextIO == CallerFixIO

SpecIO == InitIO /\ [][NextIO]_vars

\* -------------------------------------------------------------- claims C4-C6
IsAddDecoratorFix(v) == HasFixInfo(v) /\ v.fix_type = Some("add_decorator")

AddFixes(vs, f) == SelectSeq(vs, LAMBDA v : IsAddDecoratorFix(v) /\ v.file_path = f)

\* C4: a file for which the call carries no complete add_decorator descriptor
\* keeps its content and gets no entry in the returned map
C4_OnlyAddDecoratorHasEffect ==
    (calls = 1 /\ returned # None)
        => \A f \in IOFiles :
              AddFixes(args, f) = <<>>
                  => disk[f] = orig[f] /\ f \notin DOMAIN returned[1]

\* C5: apply_fixes does not raise, and a file that can be read and written gets
\* its fixes and its count whatever happened to the other files of the call
C5_OtherFilesStillFixed ==
    calls = 1
        => /\ ~raised
           /\ returned # None
           /\ \A f \in IOFiles :
                 (perm[f] = "rw" /\ AddFixes(args, f) # <<>>)
                     => /\ f \in DOMAIN returned[1]
                        /\ returned[1][f] = Len(AddFixes(args, f))
                        /\ disk[f] = ApplyEach(readlines(orig[f]),
                                               SortedByFixLineDesc(AddFixes(args, f)))

C5_Witness ==
    /\ calls = 1
    /\ Len(args) = 2
    /\ perm[args[1].file_path] # "rw" /\ IsAddDecoratorFix(args[1])
    /\ perm[args[2].file_path] = "rw" /\ IsAddDecoratorFix(args[2])
    /\ args[2].line_number = 1
    /\ Len(disk[args[2].file_path]) = 2
    /\ returned[1][args[2].file_path] = 1

\* C6: a file whose read or write failed has no applied fix in the returned map
C6_FailedFileNotCounted ==
    (calls = 1 /\ returned # None)
        => \A f \in IOFiles :
              (perm[f] # "rw" /\ AddFixes(args, f) # <<>>)
                  => (f \notin DOMAIN returned[1] \/ returned[1][f] = 0)

\* ============================================================ configuration
\* A TOML value is a record of its type t and its content (a table's
\* content is a function from keys to TOML values, an array's a sequence).
TBool(b) == [t |-> "bool", b |-> b]
TStr(x) == [t |-> "str", s |-> x]
TInt(n) == [t |-> "int", n |-> n]
TArr(a) == [t |-> "arr", a |-> a]
TTable(f) == [t |-> "table", f |-> f]

\* the content of a TOML value
V(val) ==
    CASE val.t = "bool" -> val.b
      [] val.t = "str" -> val.s
      [] val.t = "int" -> val.n
      [] val.t = "arr" -> val.a
      [] OTHER -> val.f

EmptyTable == TTable(<<>>)

\* RuleConfig() and ProboscisConfig(): the field defaults
DefaultRuleConfig == [enabled |-> TRUE, options |-> <<>>]

DefaultConfig ==
    [test_directories |-> <<"test", "tests">>,
     test_patterns |-> <<"test_*.py", "*_test.py">>,
     exclude_patterns |-> <<>>,
     rules |-> <<>>,
     output_format |-> "text",
     fail_on_error |-> FALSE]

\* pydantic's validation of a bool field: bools, the integers 0 and 1 and the
\* usual words are accepted, anything else is a ValidationError
TrueWords == {"true", "yes", "on", "1", "y", "t"}
FalseWords == {"false", "no", "off", "0", "n", "f"}

BoolField(val) ==
    IF val.t = "bool" THEN [ok |-> TRUE, b |-> V(val)]
    ELSE IF val.t = "int" /\ V(val) \in {0, 1} THEN [ok |-> TRUE, b |-> V(val) = 1]
    ELSE IF val.t = "str" /\ V(val) \in TrueWords THEN [ok |-> TRUE, b |-> TRUE]
    ELSE IF val.t = "str" /\ V(val) \in FalseWords THEN [ok |-> TRUE, b |-> FALSE]
    ELSE [ok |-> FALSE, b |-> FALSE]

\* RuleConfig(**rule_value) for a table: unknown keys are ignored
RuleConfigOf(tbl) ==
    IF "enabled" \in DOMAIN tbl
    THEN LET e == BoolField(tbl["enabled"])
         IN  [ok |-> e.ok, rule |-> [enabled |-> e.b, options |-> <<>>]]
    ELSE [ok |-> TRUE, rule |-> DefaultRuleConfig]

\* mutant: no isinstance(rule_value, dict) test, every non-bool goes to
\* RuleConfig(**rule_value)
ConvertRule_nocheck(rule_value) ==
    IF rule_value.t = "bool"
    THEN [kind |-> "set", rule |-> [enabled |-> V(rule_value), options |-> <<>>]]
    ELSE IF rule_value.t = "table" /\ RuleConfigOf(V(rule_value)).ok
         THEN [kind |-> "set", rule |-> RuleConfigOf(V(rule_value)).rule]
         ELSE [kind |-> "raise", rule |-> DefaultRuleConfig]

\* one turn of the loop over rules_data.items(): the rule is set, skipped with
\* a warning, or RuleConfig raises
ConvertRule(rule_value) ==
    IF rule_value.t = "bool"
    THEN [kind |-> "set", rule |-> [enabled |-> V(rule_value), options |-> <<>>]]
    ELSE IF rule_value.t = "table"
         THEN IF RuleConfigOf(V(rule_value)).ok
              THEN [kind |-> "set", rule |-> RuleConfigOf(V(rule_value)).rule]
              ELSE [kind |-> "raise", rule |-> DefaultRuleConfig]
         ELSE [kind |-> "skip", rule |-> DefaultRuleConfig]

\* mutant: a table that RuleConfig rejects is passed over like a skipped entry
RulesRaise_never(rules_data) == FALSE

\* the rules_config dict after the loop, and whether the loop raised
RulesRaise(rules_data) ==
    \E id \in DOMAIN rules_data : ConvertRule(rules_data[id]).kind = "raise"

RulesConfig(rules_data) ==
    [id \in {r \in DOMAIN rules_data : ConvertRule(rules_data[r]).kind = "set"} |->
        ConvertRule(rules_data[id]).rule]

validate_output_format(val) == val.t = "str" /\ V(val) \in {"text", "json"}

\* a List[str] field with validate_non_empty_list
validate_non_empty_list(val) == val.t = "arr" /\ V(val) # <<>>

\* a List[str] field without validator
ListField(val) == val.t = "arr"

Present(tbl, key) == key \in DOMAIN tbl

\* ProboscisConfig(**proboscis_data), proboscis_data["rules"] already converted
ConfigValid(pd) ==
    /\ Present(pd, "test_directories") => validate_non_empty_list(pd["test_directories"])
    /\ Present(pd, "test_patterns") => validate_non_empty_list(pd["test_patterns"])
    /\ Present(pd, "exclude_patterns") => ListField(pd["exclude_patterns"])
    /\ Present(pd, "output_format") => validate_output_format(pd["output_format"])
    /\ Present(pd, "fail_on_error") => BoolField(pd["fail_on_error"]).ok

FieldOr(pd, key, default) == IF Present(pd, key) THEN V(pd[key]) ELSE default

ProboscisConfig(pd, rules_config) ==
    [test_directories |-> FieldOr(pd, "test_directories", DefaultConfig.test_directories),
     test_patterns |-> FieldOr(pd, "test_patterns", DefaultConfig.test_patterns),
     exclude_patterns |-> FieldOr(pd, "exclude_patterns", DefaultConfig.exclude_patterns),
     rules |-> rules_config,
     output_format |-> FieldOr(pd, "output_format", DefaultConfig.output_format),
     fail_on_error |-> IF Present(pd, "fail_on_error")
                       THEN BoolField(pd["fail_on_error"]).b
                       ELSE DefaultConfig.fail_on_error]

is_rule_enabled(rules, rule_id) ==
    IF rule_id \notin DOMAIN rules THEN TRUE ELSE rules[rule_id].enabled

\* dict.get(key, {}) on a TOML table
Get(tbl, key) == IF key \in DOMAIN tbl THEN tbl[key] ELSE EmptyTable

\* bool(value) of a TOML value
Truthy(val) ==
    CASE val.t = "bool" -> V(val)
      [] val.t = "int" -> V(val) # 0
      [] val.t = "str" -> V(val) # ""
      [] OTHER -> V(val) # <<>>

\* the body of the try block of load_from_file: exc tells whether it raised
LoadTry(file) ==
    LET Raise == [exc |-> TRUE, config |-> DefaultConfig]
        Return(c) == [exc |-> FALSE, config |-> c]
    IN  IF file.state = "malformed" THEN Raise                  \* tomllib.load
        ELSE IF Get(file.data, "tool").t # "table" THEN Raise        \* .get on a non-dict
        ELSE LET proboscis_data == Get(V(Get(file.data, "tool")), "proboscis")
             IN  IF ~Truthy(proboscis_data) THEN Return(DefaultConfig)
                 ELSE IF proboscis_data.t # "table" THEN Raise
                 ELSE IF Get(V(proboscis_data), "rules").t # "table" THEN Raise   \* .items()
                 ELSE LET rules_data == V(Get(V(proboscis_data), "rules"))
                      IN  IF RulesRaise(rules_data) THEN Raise
                          ELSE IF ~ConfigValid(V(proboscis_data)) THEN Raise
                          ELSE Return(ProboscisConfig(V(proboscis_data),
                                                      RulesConfig(rules_data)))

\* mutant: only a TOML decoding error is caught
Catches_decode(file) == file.state = "malformed"

\* "except Exception" catches whatever the try block raised
Catches(file) == TRUE

\* ConfigLoader.load_from_file: exc tells whether the call raised
load_from_file(file) ==
    IF file.state = "missing" THEN [exc |-> FALSE, config |-> DefaultConfig]
    ELSE IF LoadTry(file).exc
         THEN [exc |-> ~Catches(file), config |-> DefaultConfig]
         ELSE LoadTry(file)

\* ------------------------------------------------ pyproject.toml files tried
MaxRules == 2       \* rule ids that appear in [tool.proboscis.rules]

AllRuleIds == <<"PL001", "PL002", "PL003", "PL004">>
RuleIds == {AllRuleIds[i] : i \in 1..MaxRules}

RuleValues ==
    {TBool(TRUE), TBool(FALSE), TStr("invalid"), TInt(3), EmptyTable,
     TTable("enabled" :> TBool(FALSE)), TTable("enabled" :> TStr("maybe"))}

Entry(key, values) == {<<>>} \cup {key :> val : val \in values}

RulesTables == UNION {[ids -> RuleValues] : ids \in SUBSET RuleIds}

Sections ==
    {td @@ of @@ fe @@ ru :
        td \in Entry("test_directories", {TArr(<<"tests">>), TArr(<<>>), TStr("tests")}),
        of \in Entry("output_format", {TStr("json"), TStr("yaml")}),
        fe \in Entry("fail_on_error", {TBool(TRUE), TStr("maybe")}),
        ru \in Entry("rules", {TTable(m) : m \in RulesTables})}

Documents ==
    {<<>>, "build-system" :> EmptyTable, "tool" :> TInt(1),
     "tool" :> TTable("other" :> EmptyTable)}
    \cup {"tool" :> TTable("proboscis" :> TTable(sec)) : sec \in Sections}

ConfigFiles ==
    {[state |-> "missing", data |-> <<>>], [state |-> "malformed", data |-> <<>>]}
    \cup {[state |-> "toml", data |-> doc] : doc \in Documents}

InitConfig ==
    /\ cfgFile \in ConfigFiles
    /\ loaded = None
    /\ NoFixer /\ NoWrapper /\ NoCli /\ NoEngine /\ NoLate

LoadConfig ==
    /\ loaded = None
    /\ loaded' = Some(load_from_file(cfgFile))
    /\ UNCHANGED <<cfgFile, fixVars, lintVars, cliVars, engineVars, lateVars>>

NextConfig == LoadConfig

SpecConfig == InitConfig /\ [][NextConfig]_vars

\* ------------------------------------------------------------ claims C9, C10
HasSection(file) ==
    /\ file.state = "toml"
    /\ "tool" \in DOMAIN file.data
    /\ file.data["tool"].t = "table"
    /\ "proboscis" \in DOMAIN V(file.data["tool"])
    /\ V(V(file.data["tool"])["proboscis"]) # <<>>

SectionOf(file) == V(V(file.data["tool"])["proboscis"])

RulesOf(sec) == IF "rules" \in DOMAIN sec THEN V(sec["rules"]) ELSE <<>>

NeitherBoolNorTable(val) == val.t \notin {"bool", "table"}

\* a table entry that says enabled = true/false or leaves enabled out
PlainTable(val) ==
    val.t = "table" /\ ("enabled" \in DOMAIN V(val) => V(val)["enabled"].t = "bool")

WrittenEnabled(val) ==
    IF val.t = "bool" THEN V(val)
    ELSE IF "enabled" \in DOMAIN V(val) THEN V(V(val)["enabled"]) ELSE TRUE

\* everything but the rule entries that are neither boolean nor table is valid
RestValid(sec) ==
    /\ "test_directories" \in DOMAIN sec =>
          sec["test_directories"].t = "arr" /\ V(sec["test_directories"]) # <<>>
    /\ "output_format" \in DOMAIN sec =>
          sec["output_format"].t = "str" /\ V(sec["output_format"]) \in {"text", "json"}
    /\ "fail_on_error" \in DOMAIN sec => sec["fail_on_error"].t = "bool"
    /\ \A id \in DOMAIN RulesOf(sec) :
          \/ NeitherBoolNorTable(RulesOf(sec)[id])
          \/ RulesOf(sec)[id].t = "bool"
          \/ PlainTable(RulesOf(sec)[id])

\* C9: a rule entry that is neither a boolean nor a table leaves the rule
\* enabled, the load succeeds and the other settings are loaded as written
C9_BadRuleEntryFallsBackToEnabled ==
    (/\ loaded # None
     /\ HasSection(cfgFile)
     /\ RestValid(SectionOf(cfgFile))
     /\ \E id \in DOMAIN RulesOf(SectionOf(cfgFile)) :
           NeitherBoolNorTable(RulesOf(SectionOf(cfgFile))[id]))
        => LET sec == SectionOf(cfgFile)
               cfg == loaded[1].config
           IN  /\ ~loaded[1].exc
               /\ \A id \in DOMAIN RulesOf(sec) :
                     is_rule_enabled(cfg.rules, id) =
                        IF NeitherBoolNorTable(RulesOf(sec)[id]) THEN TRUE
                        ELSE WrittenEnabled(RulesOf(sec)[id])
               /\ "test_directories" \in DOMAIN sec =>
                     cfg.test_directories = V(sec["test_directories"])
               /\ "output_format" \in DOMAIN sec =>
                     cfg.output_format = V(sec["output_format"])
               /\ "fail_on_error" \in DOMAIN sec =>
                     cfg.fail_on_error = V(sec["fail_on_error"])

C9_Witness ==
    /\ loaded # None
    /\ HasSection(cfgFile)
    /\ RulesOf(SectionOf(cfgFile)) = ("PL001" :> TStr("invalid") @@ "PL002" :> TBool(FALSE))
    /\ ~is_rule_enabled(loaded[1].config.rules, "PL002")
    /\ is_rule_enabled(loaded[1].config.rules, "PL001")
    /\ loaded[1].config.test_directories = <<"tests">>

AcceptedBool(val) ==
    \/ val.t = "bool"
    \/ val.t = "int" /\ V(val) \in {0, 1}
    \/ val.t = "str" /\ V(val) \in TrueWords \cup FalseWords

\* some field of the section fails validation
SomeFieldInvalid(sec) ==
    \/ "test_directories" \in DOMAIN sec
          /\ (sec["test_directories"].t # "arr" \/ V(sec["test_directories"]) = <<>>)
    \/ "output_format" \in DOMAIN sec
          /\ (sec["output_format"].t # "str" \/ V(sec["output_format"]) \notin {"text", "json"})
    \/ "fail_on_error" \in DOMAIN sec /\ ~AcceptedBool(sec["fail_on_error"])
    \/ \E id \in DOMAIN RulesOf(sec) :
          /\ RulesOf(sec)[id].t = "table"
          /\ "enabled" \in DOMAIN V(RulesOf(sec)[id])
          /\ ~AcceptedBool(V(RulesOf(sec)[id])["enabled"])

\* C10: load_from_file never raises; a missing file, malformed TOML, a file
\* without section and a section with an invalid field all give the defaults
C10_DefaultsOnAnyError ==
    loaded # None
        => /\ ~loaded[1].exc
           /\ (\/ cfgFile.state \in {"missing", "malformed"}
               \/ ~HasSection(cfgFile)
               \/ SomeFieldInvalid(SectionOf(cfgFile)))
                 => loaded[1].config = DefaultConfig

C10_Witness ==
    /\ loaded # None
    /\ HasSection(cfgFile)
    /\ "test_directories" \in DOMAIN SectionOf(cfgFile)
    /\ SectionOf(cfgFile)["test_directories"] = TArr(<<"tests">>)
    /\ "output_format" \in DOMAIN SectionOf(cfgFile)
    /\ SectionOf(cfgFile)["output_format"] = TStr("yaml")
    /\ loaded[1].config.test_directories = <<"test", "tests">>

\* ======================================================== RustLinterWrapper
MaxEngine == 2      \* violations in one answer of the engine

RuleLabel(id) ==
    CASE id = "PL001" -> "require-unit-test"
      [] id = "PL002" -> "require-integration-test"
      [] id = "PL003" -> "require-e2e-test"
      [] OTHER -> "require-test-markers"

RuleName(id) == <<id, ":", RuleLabel(id)>>

\* str.split(':')[0]
RECURSIVE Split0(_)
Split0(s) ==
    IF s = <<>> \/ Head(s) = ":" THEN <<>> ELSE <<Head(s)>> \o Split0(Tail(s))

\* the lexemes of a text as one string
RECURSIVE Join(_)
Join(s) == IF s = <<>> THEN "" ELSE Head(s) \o Join(Tail(s))

\* mutant: the whole rule_name is looked up, not the part before ':'
RuleIdOf_whole(rule_name) == Join(rule_name)

\* rule_id = rv.rule_name.split(':')[0]
RuleIdOf(rule_name) == Join(Split0(rule_name))

\* LintViolation(...) built from an engine violation, with its fix fields
WithFix(rv) == rv

\* LintViolation(...) built without fix fields (lint_file): they default to None
WithoutFix(rv) ==
    [rv EXCEPT !.fix_type = None, !.fix_content = None, !.fix_line = None]

\* the conversion loop shared by the three methods
RECURSIVE ConvertLoop(_, _, _)
ConvertLoop(rust_violations, rules, keepFix) ==
    IF rust_violations = <<>> THEN <<>>
    ELSE LET rv == Head(rust_violations)
             rest == ConvertLoop(Tail(rust_violations), rules, keepFix)
         IN  IF ~is_rule_enabled(rules, RuleIdOf(rv.rule_name)) THEN rest
             ELSE <<IF keepFix THEN WithFix(rv) ELSE WithoutFix(rv)>> \o rest

\* rust_violations after the optional check_test_markers call
WithMarkers(rules, rust, markers) ==
    IF is_rule_enabled(rules, "PL004") THEN rust \o markers ELSE rust

lint_project_result(rules, rust, markers) ==
    ConvertLoop(WithMarkers(rules, rust, markers), rules, TRUE)

lint_file_result(rules, rust) == ConvertLoop(rust, rules, FALSE)

lint_changed_files_result(rules, rust, markers) ==
    ConvertLoop(WithMarkers(rules, rust, markers), rules, TRUE)

\* what the engine may answer
SourceFile == "src/m.py"

EngineViolations ==
    {[rule_name |-> RuleName(id), file_path |-> SourceFile, line_number |-> n,
      fix_type |-> None, fix_content |-> None, fix_line |-> None] :
        id \in {AllRuleIds[i] : i \in 1..3}, n \in {1, 2}}

MarkerViolations ==
    {[rule_name |-> RuleName("PL004"), file_path |-> UnitFile, line_number |-> n,
      fix_type |-> Some("add_decorator"), fix_content |-> Some(UnitMarker),
      fix_line |-> Some(n)] : n \in {1, 2}}

WrapperRuleIds == RuleIds \cup {"PL004"}

InitLint ==
    /\ wrapperConfig \in UNION {[ids -> {[enabled |-> b, options |-> <<>>] : b \in BOOLEAN}] :
                                   ids \in SUBSET WrapperRuleIds}
    /\ lintCall = None
    /\ NoFixer /\ NoLoader /\ NoCli /\ NoEngine /\ NoLate

lint_project ==
    /\ lintCall = None
    /\ \E rust \in ListsOf(EngineViolations, MaxEngine),
          markers \in ListsOf(MarkerViolations, MaxEngine) :
            lintCall' = Some([method |-> "lint_project", rust |-> rust, markers |-> markers,
                              result |-> lint_project_result(wrapperConfig, rust, markers)])
    /\ UNCHANGED <<wrapperConfig, fixVars, cfgVars, cliVars, engineVars, lateVars>>

lint_file ==
    /\ lintCall = None
    /\ \E rust \in ListsOf(EngineViolations, MaxEngine) :
            lintCall' = Some([method |-> "lint_file", rust |-> rust, markers |-> <<>>,
                              result |-> lint_file_result(wrapperConfig, rust)])
    /\ UNCHANGED <<wrapperConfig, fixVars, cfgVars, cliVars, engineVars, lateVars>>

lint_changed_files ==
    /\ lintCall = None
    /\ \E rust \in ListsOf(EngineViolations, MaxEngine),
          markers \in ListsOf(MarkerViolations, MaxEngine) :
            lintCall' = Some([method |-> "lint_changed_files", rust |-> rust,
                              markers |-> markers,
                              result |-> lint_changed_files_result(wrapperConfig, rust, markers)])
    /\ UNCHANGED <<wrapperConfig, fixVars, cfgVars, cliVars, engineVars, lateVars>>

NextLint == lint_project \/ lint_file \/ lint_changed_files

SpecLint == InitLint /\ [][NextLint]_vars

\* ------------------------------------------------------------------ claim C8
DisabledRule(v) ==
    /\ v.rule_name[1] \in DOMAIN wrapperConfig
    /\ ~wrapperConfig[v.rule_name[1]].enabled

Core(vs) ==
    [i \in 1..Len(vs) |-> [rule_name |-> vs[i].rule_name, file_path |-> vs[i].file_path,
                           line_number |-> vs[i].line_number]]

\* C8: the list a lint method returns holds no violation of a disabled rule and
\* holds every engine violation of the other rules, in the engine's order
C8_DisabledRuleContributesNothing ==
    lintCall # None
        => LET c == lintCall[1]
           IN  /\ \A i \in 1..Len(c.result) : ~DisabledRule(c.result[i])
               /\ Core(c.result) =
                    Core(SelectSeq(c.rust \o c.markers, LAMBDA v : ~DisabledRule(v)))

C8_Witness ==
    /\ lintCall # None
    /\ lintCall[1].method = "lint_project"
    /\ Len(lintCall[1].rust) = 2
    /\ DisabledRule(lintCall[1].rust[1])
    /\ ~DisabledRule(lintCall[1].rust[2])
    /\ Len(lintCall[1].markers) = 1
    /\ Len(lintCall[1].result) = 2

\* ====================================================== merge_cli_options
MaxExclude == 2     \* patterns in one exclude list

\* config.model_dump(): the fields as plain values, rules as dicts
DumpRules(rules) == [id \in DOMAIN rules |-> TTable("enabled" :> TBool(rules[id].enabled))]

model_dump(config) ==
    "test_directories" :> TArr(config.test_directories)
    @@ "test_patterns" :> TArr(config.test_patterns)
    @@ "exclude_patterns" :> TArr(config.exclude_patterns)
    @@ "rules" :> TTable(DumpRules(config.rules))
    @@ "output_format" :> TStr(config.output_format)
    @@ "fail_on_error" :> TBool(config.fail_on_error)

\* cli_options.get(key): None when the keyword is absent or given as None
OptionGet(cli_options, key) ==
    IF key \in DOMAIN cli_options THEN cli_options[key] ELSE None

\* mutant: a CLI value overrides only when it is truthy
Override_truthy(tbl, key, opt, val) ==
    IF opt # None /\ Truthy(val) THEN [tbl EXCEPT ![key] = val] ELSE tbl

\* "if cli_options.get(k) is not None: merged_data[key] = cli_options[k]"
Override(tbl, key, opt, val) ==
    IF opt # None THEN [tbl EXCEPT ![key] = val] ELSE tbl

\* "if cli_options.get("exclude"): merged_data["exclude_patterns"].extend(...)"
Extend(tbl, opt) ==
    IF opt # None /\ opt[1] # <<>>
    THEN [tbl EXCEPT !["exclude_patterns"] = TArr(V(tbl["exclude_patterns"]) \o opt[1])]
    ELSE tbl

MergedData(config, cli_options) ==
    LET fmt == OptionGet(cli_options, "format")
        foe == OptionGet(cli_options, "fail_on_error")
        d0 == model_dump(config)
        d1 == Override(d0, "output_format", fmt, TStr(IF fmt = None THEN "" ELSE fmt[1]))
        d2 == Override(d1, "fail_on_error", foe, TBool(IF foe = None THEN FALSE ELSE foe[1]))
    IN  Extend(d2, OptionGet(cli_options, "exclude"))

\* ConfigLoader.merge_cli_options: exc tells whether ProboscisConfig(**merged_data)
\* raised its ValidationError
merge_cli_options(config, cli_options) ==
    LET merged_data == MergedData(config, cli_options)
        rules_config == [id \in DOMAIN V(merged_data["rules"]) |->
                            RuleConfigOf(V(V(merged_data["rules"])[id])).rule]
    IN  IF ConfigValid(merged_data)
        THEN [exc |-> FALSE, config |-> ProboscisConfig(merged_data, rules_config)]
        ELSE [exc |-> TRUE, config |-> config]

\* the configurations and keyword arguments tried
Patterns == {"a/**", "b/**"}

MergeKwargs ==
    {td @@ ex @@ of @@ fe :
        td \in Entry("test_directories", {TArr(<<"tests">>)}),
        ex \in Entry("exclude_patterns",
                     {TArr(l) : l \in ListsOf(Patterns, MaxExclude) \ {<<>>}}),
        of \in Entry("output_format", {TStr("json")}),
        fe \in Entry("fail_on_error", {TBool(TRUE)})}

MergeConfigs ==
    {ProboscisConfig(kw, rules) :
        kw \in MergeKwargs, rules \in {<<>>, "PL001" :> [enabled |-> FALSE, options |-> <<>>]}}

MergeOptions ==
    {f @@ e @@ x :
        f \in Entry("format", {None, Some("text"), Some("json"), Some("yaml")}),
        e \in Entry("fail_on_error", {None, Some(TRUE), Some(FALSE)}),
        x \in Entry("exclude", {None} \cup {Some(l) : l \in ListsOf(Patterns, MaxExclude)})}

InitMerge ==
    /\ cliConfig \in MergeConfigs
    /\ cliOptions \in MergeOptions
    /\ merged = None
    /\ NoFixer /\ NoLoader /\ NoWrapper /\ NoFind /\ NoRun /\ NoEngine /\ NoLate

MergeCli ==
    /\ merged = None
    /\ merged' = Some(merge_cli_options(cliConfig, cliOptions))
    /\ UNCHANGED <<cliConfig, cliOptions, fixVars, cfgVars, lintVars, findVars, runVars, engineVars, lateVars>>

NextMerge == MergeCli

SpecMerge == InitMerge /\ [][NextMerge]_vars

\* ----------------------------------------------------------------- claim C11
Given(key) == OptionGet(cliOptions, key) # None

\* C11: the merged configuration takes output_format and fail_on_error from the
\* CLI options exactly when they are given (not None), its exclude_patterns are
\* the configured ones followed by the CLI ones, and test_directories,
\* test_patterns and rules are those of the input configuration
C11_MergeOverridesOnlyWhatIsGiven ==
    (merged # None /\ ~merged[1].exc)
        => LET m == merged[1].config
           IN  /\ m.output_format = IF Given("format") THEN cliOptions["format"][1]
                                    ELSE cliConfig.output_format
               /\ m.fail_on_error = IF Given("fail_on_error")
                                    THEN cliOptions["fail_on_error"][1]
                                    ELSE cliConfig.fail_on_error
               /\ m.exclude_patterns =
                    cliConfig.exclude_patterns
                    \o (IF Given("exclude") THEN cliOptions["exclude"][1] ELSE <<>>)
               /\ m.test_directories = cliConfig.test_directories
               /\ m.test_patterns = cliConfig.test_patterns
               /\ m.rules = cliConfig.rules

C11_Witness ==
    /\ merged # None /\ ~merged[1].exc
    /\ cliConfig.fail_on_error /\ cliConfig.output_format = "json"
    /\ cliConfig.exclude_patterns = <<"a/**", "b/**">>
    /\ cliConfig.rules # <<>>
    /\ ~Given("format")
    /\ Given("fail_on_error") /\ ~cliOptions["fail_on_error"][1]
    /\ Given("exclude") /\ cliOptions["exclude"][1] = <<"b/**", "a/**">>
    /\ merged[1].config.exclude_patterns = <<"a/**", "b/**", "b/**", "a/**">>
    /\ ~merged[1].config.fail_on_error

\* ======================================================== find_config_file
MaxDepth == 2       \* directories below the file system root on the start path

\* a resolved directory is the sequence of its names below the root: <<>> is "/"
DirNames == <<"home", "proj", "pkg", "sub", "deep">>
Dir(k) == SubSeq(DirNames, 1, k)
Dirs == {Dir(k) : k \in 0..MaxDepth}

\* Path.parent: the root is its own parent
parent(p) == IF p = <<>> THEN <<>> ELSE SubSeq(p, 1, Len(p) - 1)

\* "x in value" for the value found under data["tool"]: a key of a table, an
\* element of an array, a substring of a string; TypeError for the rest
InValue(x, val) ==
    CASE val.t = "table" -> [exc |-> FALSE, b |-> x \in DOMAIN V(val)]
      [] val.t = "arr" -> [exc |-> FALSE, b |-> \E i \in DOMAIN V(val) : V(val)[i] = x]
      [] val.t = "str" -> [exc |-> FALSE, b |-> V(val) \in {x, "x" \o x, x \o "x"}]
      [] OTHER -> [exc |-> TRUE, b |-> FALSE]

\* the body of the try block for a pyproject.toml that exists: TRUE when
\* "return config_file" is reached, FALSE when the if fails or the except
\* clause passes
SectionFound(file) ==
    IF file.state = "malformed" THEN FALSE                       \* tomllib.load raises
    ELSE IF "tool" \notin DOMAIN file.data THEN FALSE
    ELSE LET r == InValue("proboscis", file.data["tool"])
         IN  ~r.exc /\ r.b

\* one turn of the loop body: does it return config_file?
Accepts(file) == file.state # "missing" /\ SectionFound(file)

\* the pyproject.toml files a directory may hold
FindFiles ==
    {[state |-> "missing", data |-> <<>>],
     [state |-> "malformed", data |-> <<>>],
     [state |-> "toml", data |-> "tool" :> TTable("other" :> EmptyTable)],
     [state |-> "toml", data |-> "tool" :> TInt(1)],
     [state |-> "toml", data |-> "tool" :> TTable("proboscis" :> EmptyTable)],
     [state |-> "toml",
      data |-> "tool" :> TTable("proboscis" :>
                  TTable("output_format" :> TStr("json") @@ "fail_on_error" :> TBool(TRUE)))]}

InitFind ==
    /\ tree \in [Dirs -> FindFiles]
    /\ startAt \in Dirs
    /\ current = startAt
    /\ found = None
    /\ NoFixer /\ NoLoader /\ NoWrapper /\ NoMerge /\ NoRun /\ NoEngine /\ NoLate

\* one turn of "while current != current.parent"
FindVisit ==
    /\ found = None
    /\ current # parent(current)
    /\ IF Accepts(tree[current])
       THEN found' = Some(Some(current)) /\ UNCHANGED current
       ELSE current' = parent(current) /\ UNCHANGED found
    /\ UNCHANGED <<tree, startAt, fixVars, cfgVars, lintVars, mergeVars, runVars, engineVars, lateVars>>

\* the loop condition fails: return None
FindGiveUp ==
    /\ found = None
    /\ current = parent(current)
    /\ found' = Some(None)
    /\ UNCHANGED <<tree, startAt, current, fixVars, cfgVars, lintVars, mergeVars, runVars, engineVars, lateVars>>

NextFind == FindVisit \/ FindGiveUp

SpecFind == InitFind /\ [][NextFind]_vars

\* ----------------------------------------------------------------- claim C13
\* a pyproject.toml that parses and has a [tool.proboscis] table
ContainsSection(file) ==
    /\ file.state = "toml"
    /\ "tool" \in DOMAIN file.data
    /\ file.data["tool"].t = "table"
    /\ "proboscis" \in DOMAIN V(file.data["tool"])
    /\ V(file.data["tool"])["proboscis"].t = "table"

\* start_path and all of its ancestors, the root included
Ancestors(p) == {SubSeq(p, 1, k) : k \in 0..Len(p)}

Nearest(t, p) ==
    LET with == {d \in Ancestors(p) : ContainsSection(t[d])}
    IN  IF with = {} THEN None
        ELSE Some(CHOOSE d \in with : \A e \in with : Len(e) <= Len(d))

\* C13: find_config_file returns the pyproject.toml of the nearest directory,
\* among start_path and all its ancestors, that has a [tool.proboscis] section,
\* skipping files without the section or that do not parse, and None when
\* there is none
C13_NearestSectionAmongAllAncestors ==
    found # None => found[1] = Nearest(tree, startAt)

\* ================================================================ the CLI
\* ConfigLoader.find_config_file as one call: the walk from cur upward
RECURSIVE find_config_file_from(_, _)
find_config_file_from(t, cur) ==
    IF cur = parent(cur) THEN None
    ELSE IF Accepts(t[cur]) THEN Some(cur)
    ELSE find_config_file_from(t, parent(cur))

find_config_file(t, start_path) == find_config_file_from(t, start_path)

\* RustLinterWrapper.__init__: config is the object handed in, a function from
\* its attribute names; exc is the exception raised ("" for none), strict_mode
\* what the engine was built with
RustLinterWrapper_init(config, rust_available) ==
    IF ~rust_available
    THEN [exc |-> "ImportError", strict_mode |-> FALSE, config |-> config]
    ELSE IF "strict_mode" \notin DOMAIN config            \* config.strict_mode
         THEN [exc |-> "AttributeError", strict_mode |-> FALSE, config |-> config]
         ELSE [exc |-> "", strict_mode |-> config["strict_mode"], config |-> config]

\* ProboscisLinter.__init__
ProboscisLinter_init(config, rust_available) == RustLinterWrapper_init(config, rust_available)

\* the value click hands to cli() for --format: the option's default when absent
ClickFormat(av) == IF av.format = None THEN "text" ELSE av.format[1]

\* the keyword arguments cli() hands to merge_cli_options
CliOptionsOf(av) ==
    "format" :> Some(ClickFormat(av))
    @@ "fail_on_error" :> Some(av.fail_on_error)
    @@ "exclude" :> (IF av.exclude # <<>> THEN Some(av.exclude) ELSE None)

\* an exception that leaves cli(): traceback, exit code 1, no report
Crash(config, linter, exc) ==
    [exc |-> exc, exit_code |-> 1, report |-> "none", config |-> config, linter |-> linter]

\* cli(): the whole run
cli_result(t, path, av, ans) ==
    LET config_file == find_config_file(t, path)
        loaded_config == IF config_file # None
                         THEN load_from_file(t[config_file[1]]).config
                         ELSE DefaultConfig
        m == merge_cli_options(loaded_config, CliOptionsOf(av))
        linter == ProboscisLinter_init(m.config, ans.rust_available)
    IN  IF m.exc THEN Crash(loaded_config, linter, "ValidationError")
        ELSE IF linter.exc # "" THEN Crash(m.config, linter, linter.exc)
        ELSE IF av.changed_only          \* ProboscisLinter has no lint_changed_files
        THEN Crash(m.config, linter, "AttributeError")
        ELSE LET violations == lint_project_result(m.config.rules, ans.rust, ans.markers)
             IN  [exc |-> "",
                  exit_code |-> IF m.config.fail_on_error /\ violations # <<>> THEN 1 ELSE 0,
                  report |-> IF m.config.output_format = "json" THEN "json" ELSE "text",
                  config |-> m.config,
                  linter |-> linter]

\* the projects, command lines and engine answers tried
StrictSection ==
    "strict_mode" :> TBool(TRUE) @@ "rules" :> TTable("PL002" :> TBool(FALSE))

JsonSection == "output_format" :> TStr("json") @@ "fail_on_error" :> TBool(TRUE)

CliFiles ==
    {[state |-> "missing", data |-> <<>>],
     [state |-> "toml", data |-> "tool" :> TTable("other" :> EmptyTable)],
     [state |-> "toml", data |-> "tool" :> TTable("proboscis" :> TTable(JsonSection))],
     [state |-> "toml", data |-> "tool" :> TTable("proboscis" :> TTable(StrictSection))]}

Argvs ==
    [format : {None, Some("text"), Some("json")},
     fail_on_error : BOOLEAN,
     exclude : {<<>>, <<"a/**">>},
     changed_only : BOOLEAN]

EngineViolation(id) ==
    [rule_name |-> RuleName(id), file_path |-> "src/m.py", line_number |-> 1,
     fix_type |-> None, fix_content |-> None, fix_line |-> None]

Answers ==
    [rust_available : BOOLEAN,
     rust : {<<>>, <<EngineViolation("PL001")>>, <<EngineViolation("PL002")>>},
     markers : {<<>>}]

InitCli ==
    /\ tree \in [Dirs -> CliFiles]
    /\ startAt \in Dirs
    /\ current = startAt
    /\ found = None
    /\ argv \in Argvs
    /\ answer \in Answers
    /\ cliRun = None
    /\ NoFixer /\ NoLoader /\ NoWrapper /\ NoMerge /\ NoEngine /\ NoLate

RunCli ==
    /\ cliRun = None
    /\ cliRun' = Some(cli_result(tree, startAt, argv, answer))
    /\ UNCHANGED <<argv, answer, fixVars, cfgVars, lintVars, mergeVars, findVars, engineVars, lateVars>>

NextCli == RunCli

SpecCli == InitCli /\ [][NextCli]_vars

\* ------------------------------------------------------------ claims C12, C18
\* the [tool.proboscis] section of the project the CLI runs on
ProjectSection ==
    LET n == Nearest(tree, startAt)
    IN  IF n = None THEN <<>> ELSE V(V(tree[n[1]].data["tool"])["proboscis"])

FileSays(key, val) == key \in DOMAIN ProjectSection /\ ProjectSection[key] = val

\* C12: run without --fail-on-error and without --format, the file's
\* fail_on_error and output_format are in effect (exit code 1 on a violation
\* when the file says fail_on_error = true, a JSON report when it says
\* output_format = "json"); an explicit --format decides the report's format
\* while the file's fail_on_error still applies
C12_FileSettingsInEffect ==
    (cliRun # None /\ answer.rust_available /\ ~argv.changed_only)
        => LET r == cliRun[1]
           IN  /\ (~argv.fail_on_error /\ FileSays("fail_on_error", TBool(TRUE))
                      /\ answer.rust # <<>>)
                     => r.exit_code = 1 /\ r.config.fail_on_error
               /\ (argv.format = None /\ FileSays("output_format", TStr("json")))
                     => r.report = "json" /\ r.config.output_format = "json"
               /\ (argv.format # None /\ FileSays("output_format", TStr("json")))
                     => r.report = argv.format[1]

\* C18: the linter is constructed, in strict mode when the configuration says
\* strict_mode = true and in non-strict mode when it does not mention it
C18_StrictModeReachesEngine ==
    (cliRun # None /\ answer.rust_available)
        => /\ cliRun[1].linter.exc = ""
           /\ cliRun[1].linter.strict_mode = FileSays("strict_mode", TBool(TRUE))

\* ============================================ the engine's test-requirement rules
\* The engine is the Rust extension; it is modelled from its specification.
\* An identifier is a sequence of lexemes: "_" and "__" are lexemes of their
\* own, so <<"_", "g">> is _g and <<"__", "init", "__">> is __init__.
MaxDecls == 2       \* declarations in one source module
MaxTests == 2       \* test modules in one project

\* path.split("/") for the paths of the projects tried
PathParts(path) ==
    CASE path = "src/m.py" -> <<"src", "m.py">>
      [] path = "utils/n.py" -> <<"utils", "n.py">>
      [] path = "test/unit/test_a.py" -> <<"test", "unit", "test_a.py">>
      [] path = "test/unit/test_m.py" -> <<"test", "unit", "test_m.py">>
      [] path = "test/integration/test_m.py" -> <<"test", "integration", "test_m.py">>
      [] path = "test/e2e/test_m.py" -> <<"test", "e2e", "test_m.py">>
      [] path = "tests/test_m.py" -> <<"tests", "test_m.py">>
      [] path = "test/helpers/test_m.py" -> <<"test", "helpers", "test_m.py">>
      [] OTHER -> <<path>>

Tiers == {"unit", "integration", "e2e"}

\* the tier of a test file: the tier subdirectory that follows the first
\* segment naming a configured test directory and followed by one; "general"
\* when a test directory is on the path but no tier subdirectory follows it;
\* "none" for a file outside the test directories
RECURSIVE TierScan(_, _, _)
TierScan(parts, i, test_directories) ==
    IF i >= Len(parts) THEN "general"
    ELSE IF (\E k \in DOMAIN test_directories : test_directories[k] = parts[i])
            /\ parts[i + 1] \in Tiers
         THEN parts[i + 1]
         ELSE TierScan(parts, i + 1, test_directories)

TierOfPath(path, test_directories) ==
    LET parts == PathParts(path)
    IN  IF \E i \in DOMAIN parts, k \in DOMAIN test_directories :
              test_directories[k] = parts[i]
        THEN TierScan(parts, 1, test_directories)
        ELSE "none"

\* ---- Source Parser: __all__ and suppression comments
Underscore(name) == name # <<>> /\ Head(name) \in {"_", "__"}
Dunder(name) == Len(name) >= 3 /\ Head(name) = "__" /\ name[Len(name)] = "__"
IsMethod(decl) == decl.class # <<>>

\* mutant: an empty list is taken for no list at all
ExportedNames_truthy(all_stmt) ==
    IF all_stmt.form \in {"list", "tuple"} /\ all_stmt.items # <<>>
    THEN Some({all_stmt.items[i] : i \in DOMAIN all_stmt.items})
    ELSE None

\* exported_names: Some(set of names) for a literal list or tuple of string
\* literals, None for any other form of __all__ and when there is none
ExportedNames(all_stmt) ==
    IF all_stmt.form \in {"list", "tuple"}
    THEN Some({all_stmt.items[i] : i \in DOMAIN all_stmt.items})
    ELSE None

\* mutant: only the first rule id of the comment is taken
Suppressions_first(comment) ==
    LET tokens == SelectSeq(comment, LAMBDA x : x \notin WS \cup {":", ","})
    IN  IF Len(tokens) >= 3 /\ tokens[1] = "#" /\ tokens[2] = "noqa"
        THEN {tokens[3]}
        ELSE {}

\* the rule ids of a comment "#noqa RULE[, RULE...]" or "#noqa: RULE[, RULE...]",
\* whitespace tolerated anywhere
Suppressions(comment) ==
    LET tokens == SelectSeq(comment, LAMBDA x : x \notin WS)
    IN  IF Len(tokens) >= 2 /\ tokens[1] = "#" /\ tokens[2] = "noqa"
        THEN {tokens[i] : i \in {j \in 3..Len(tokens) : tokens[j] \notin {":", ","}}}
        ELSE {}

\* ---- Visibility Resolver
\* mutant: the underscore convention is consulted first, __all__ only for
\* the names it lets through
IsPublic_convention(module, decl, strict_mode) ==
    LET exported_names == ExportedNames(module.all_stmt)
        conventional == strict_mode \/ (~Underscore(decl.name) /\ ~Underscore(decl.class))
    IN  IF exported_names # None
        THEN conventional
             /\ (IF IsMethod(decl) THEN decl.class ELSE decl.name) \in exported_names[1]
        ELSE conventional

\* rule 1 (a valid __all__ decides, by the name of the function or of the
\* enclosing class) and rule 2 (underscore convention, lifted by strict mode)
IsPublic(module, decl, strict_mode) ==
    LET exported_names == ExportedNames(module.all_stmt)
    IN  IF exported_names # None
        THEN (IF IsMethod(decl) THEN decl.class ELSE decl.name) \in exported_names[1]
        ELSE strict_mode \/ (~Underscore(decl.name) /\ ~Underscore(decl.class))

\* mutant: strict mode lifts the exemption of dunders too
IsSpecial_lifted(decl, strict_mode) ==
    ~strict_mode /\ (Dunder(decl.name) \/ (IsMethod(decl) /\ Underscore(decl.name)))

\* is_special: dunders always, underscore-prefixed methods unless strict mode
IsSpecial(decl, strict_mode) ==
    Dunder(decl.name) \/ (IsMethod(decl) /\ Underscore(decl.name) /\ ~strict_mode)

\* the declarations the test-requirement rules evaluate
Evaluated(module, decl, strict_mode) ==
    IsPublic(module, decl, strict_mode) /\ ~IsSpecial(decl, strict_mode)

\* ---- Name-Correlation Matcher
IsPrefix(p, q) == Len(p) <= Len(q) /\ SubSeq(q, 1, Len(p)) = p

\* exact, prefixed-wildcard and qualified forms
Covers(test_name, decl) ==
    LET exact == <<"test_">> \o decl.name
        qualified == <<"test_">> \o decl.class \o <<"_">> \o decl.name
    IN  \/ test_name = exact
        \/ IsPrefix(exact \o <<"_">>, test_name)
        \/ IsMethod(decl) /\ (test_name = qualified \/ IsPrefix(qualified \o <<"_">>, test_name))

\* mutant: only the tests of the rule's own tier count
has_test_same_tier(decl, tier, test_pool, test_directories) ==
    \E k \in DOMAIN test_pool :
        /\ TierOfPath(test_pool[k].file_path, test_directories) = tier
        /\ \E j \in DOMAIN test_pool[k].tests : Covers(test_pool[k].tests[j], decl)

has_test(decl, tier, test_pool, test_directories) ==
    \E k \in DOMAIN test_pool :
        /\ TierOfPath(test_pool[k].file_path, test_directories) \in {tier, "general"}
        /\ \E j \in DOMAIN test_pool[k].tests : Covers(test_pool[k].tests[j], decl)

\* ---- Rule Evaluation Engine
RuleTier(id) ==
    CASE id = "PL001" -> "unit" [] id = "PL002" -> "integration" [] OTHER -> "e2e"

TestRules == <<"PL001", "PL002", "PL003">>

RequireTest(module, decl, id) ==
    [rule_name |-> RuleName(id), file_path |-> module.file_path,
     line_number |-> decl.line, function_name |-> decl.name,
     fix_type |-> None, fix_content |-> None, fix_line |-> None]

\* Suppress: the rules named on the def line or on the file's first comment
Suppressed(module, decl, id) ==
    id \in Suppressions(decl.comment) \cup Suppressions(module.header)

Fires(module, decl, id, proj, strict_mode) ==
    /\ Evaluated(module, decl, strict_mode)
    /\ ~has_test(decl, RuleTier(id), proj.tests, proj.test_directories)
    /\ ~Suppressed(module, decl, id)

\* Evaluate: the violations of one module, declaration by declaration
EvaluateModule(module, proj, strict_mode) ==
    LET n == Len(module.declarations)
        cell(i) == [decl |-> module.declarations[((i - 1) \div 3) + 1],
                    id |-> TestRules[((i - 1) % 3) + 1]]
        all == [i \in 1..(3 * n) |-> cell(i)]
        firing == SelectSeq(all, LAMBDA c : Fires(module, c.decl, c.id, proj, strict_mode))
    IN  [i \in 1..Len(firing) |-> RequireTest(module, firing[i].decl, firing[i].id)]

\* Emit: the sort key is (file path, line, rule id)
PathOrder ==
    <<"src/m.py", "test/e2e/test_m.py", "test/helpers/test_m.py",
      "test/integration/test_m.py", "test/unit/test_a.py", "test/unit/test_m.py",
      "tests/test_m.py", "utils/n.py">>

PathRank(path) == CHOOSE i \in DOMAIN PathOrder : PathOrder[i] = path
RuleRank(rule_name) == CHOOSE i \in DOMAIN AllRuleIds : AllRuleIds[i] = rule_name[1]

KeyLess(a, b) ==
    \/ PathRank(a.file_path) < PathRank(b.file_path)
    \/ /\ a.file_path = b.file_path
       /\ \/ a.line_number < b.line_number
          \/ a.line_number = b.line_number /\ RuleRank(a.rule_name) < RuleRank(b.rule_name)

RECURSIVE InsertByKey(_, _)
InsertByKey(sorted, v) ==
    IF sorted = <<>> THEN <<v>>
    ELSE IF KeyLess(v, Head(sorted)) THEN <<v>> \o sorted
    ELSE <<Head(sorted)>> \o InsertByKey(Tail(sorted), v)

RECURSIVE SortByKey(_)
SortByKey(vs) ==
    IF vs = <<>> THEN <<>> ELSE InsertByKey(SortByKey(Tail(vs)), Head(vs))

RECURSIVE Concat(_)
Concat(lists) == IF lists = <<>> THEN <<>> ELSE Head(lists) \o Concat(Tail(lists))

\* RustLinter.lint_project: the modules are evaluated in any order (completed
\* lists them as their evaluations finished), the merge step sorts
engine_lint_project(proj, strict_mode, completed) ==
    SortByKey(Concat([i \in DOMAIN completed |->
                         EvaluateModule(completed[i], proj, strict_mode)]))

\* RustLinter.check_test_markers: PL004 over the test files, sorted
engine_check_test_markers(proj) ==
    SortByKey(Concat([k \in DOMAIN proj.tests |->
                         check_test_markers(proj.tests[k].file_path,
                                            proj.tests[k].content)]))

\* ---- a lint run: RustLinterWrapper.lint_project over the engine
\* the orders in which the evaluations of the modules may complete
CompletionOrders(sources) ==
    {[i \in DOMAIN sources |-> sources[f[i]]] : f \in Permutations(DOMAIN sources)}

\* lint_project of a wrapper whose engine was built with strict_mode
LintRun(strict_mode) ==
    /\ runs[strict_mode] = None
    /\ \E completed \in CompletionOrders(project.sources) :
          runs' = [runs EXCEPT ![strict_mode] =
                      Some(lint_project_result(wrapperConfig,
                              engine_lint_project(project, strict_mode, completed),
                              engine_check_test_markers(project)))]
    /\ UNCHANGED <<project, wrapperConfig, lintCall, fixVars, cfgVars, cliVars, lateVars>>

LintPublicOnly == LintRun(FALSE)
LintStrict == LintRun(TRUE)

NextEngine == LintPublicOnly \/ LintStrict

\* rules tables of the wrapper's configuration
Disabled == [enabled |-> FALSE, options |-> <<>>]
EngineRules == {<<>>, "PL002" :> Disabled}

\* a subsequence of a sequence: the elements at the indices in S, in order
RECURSIVE Pick(_, _, _)
Pick(seq, S, i) ==
    IF i > Len(seq) THEN <<>>
    ELSE (IF i \in S THEN <<seq[i]>> ELSE <<>>) \o Pick(seq, S, i + 1)

SubSeqs(seq, n) == {Pick(seq, S, 1) : S \in {T \in SUBSET DOMAIN seq : Cardinality(T) <= n}}

NoComment == <<>>
Decl(name, class, line) == [name |-> name, class |-> class, line |-> line, comment |-> NoComment]

\* ---- modules tried for the Visibility Resolver
\* def f / def _g / class K: m, __init__, _h / class _P: q
VisibilityDecls ==
    <<Decl(<<"f">>, <<>>, 1), Decl(<<"_", "g">>, <<>>, 2),
      Decl(<<"m">>, <<"K">>, 4), Decl(<<"__", "init", "__">>, <<"K">>, 5),
      Decl(<<"_", "h">>, <<"K">>, 6), Decl(<<"q">>, <<"_", "P">>, 8)>>

AllStmts ==
    {[form |-> "absent", items |-> <<>>],
     [form |-> "list", items |-> <<>>],
     [form |-> "tuple", items |-> <<>>],
     [form |-> "list", items |-> <<<<"f">>>>],
     [form |-> "list", items |-> <<<<"_", "g">>, <<"K">>>>],
     [form |-> "tuple", items |-> <<<<"m">>, <<"_", "P">>>>],
     [form |-> "string", items |-> <<<<"f">>>>],           \* __all__ = "f"
     [form |-> "computed", items |-> <<<<"f">>>>],         \* __all__ = ["f"] + other
     [form |-> "augmented", items |-> <<<<"f">>>>]}        \* __all__ += ["f"]

Module(path, header, all_stmt, declarations) ==
    [file_path |-> path, header |-> header, all_stmt |-> all_stmt,
     declarations |-> declarations]

Project(sources, tests) ==
    [sources |-> sources, tests |-> tests, test_directories |-> DefaultConfig.test_directories]

InitVisibility ==
    /\ project \in {Project(<<Module("src/m.py", NoComment, a, ds)>>, <<>>) :
                       a \in AllStmts, ds \in SubSeqs(VisibilityDecls, MaxDecls)}
    /\ runs = [strict_mode \in BOOLEAN |-> None]
    /\ wrapperConfig \in EngineRules
    /\ lintCall = None
    /\ NoFixer /\ NoLoader /\ NoCli /\ NoLate

SpecVisibility == InitVisibility /\ [][NextEngine]_vars

\* ------------------------------------------------------- claims C15, C16, C17
TheModule == project.sources[1]
HasValidAll == TheModule.all_stmt.form \in {"list", "tuple"}
Listed(name) == \E i \in DOMAIN TheModule.all_stmt.items : TheModule.all_stmt.items[i] = name
ListedByName(decl) == Listed(IF decl.class # <<>> THEN decl.class ELSE decl.name)

\* a declaration is evaluated when, without any test, PL001 is reported for it
Reported(run, decl, id) ==
    \E i \in DOMAIN run : /\ run[i].function_name = decl.name
                          /\ run[i].line_number = decl.line
                          /\ run[i].rule_name[1] = id

DeclsOf(module) == {module.declarations[i] : i \in DOMAIN module.declarations}

\* C15 as stated: with a valid literal __all__, a function (or a class's
\* method) is evaluated if and only if its name (its class's name) is listed
C15_EvaluatedIffListed ==
    \A strict_mode \in BOOLEAN :
        (runs[strict_mode] # None /\ HasValidAll)
            => \A decl \in DeclsOf(TheModule) :
                  Reported(runs[strict_mode][1], decl, "PL001") <=> ListedByName(decl)

\* C15 amended: with a valid literal __all__, nothing unlisted is evaluated,
\* and what is listed is evaluated unless it is a dunder or an
\* underscore-prefixed method; an underscore-prefixed function that is listed
\* is evaluated
C15_EvaluatedOnlyIfListed ==
    \A strict_mode \in BOOLEAN :
        (runs[strict_mode] # None /\ HasValidAll)
            => \A decl \in DeclsOf(TheModule) :
                  /\ Reported(runs[strict_mode][1], decl, "PL001") => ListedByName(decl)
                  /\ (ListedByName(decl) /\ (decl.class = <<>> \/ Head(decl.name) # "_")
                         /\ Head(decl.name) # "__")
                        => Reported(runs[strict_mode][1], decl, "PL001")

C15_Witness ==
    /\ runs[FALSE] # None
    /\ TheModule.all_stmt.items = <<<<"_", "g">>, <<"K">>>>
    /\ Len(TheModule.declarations) = 2
    /\ TheModule.declarations[1].name = <<"f">>
    /\ TheModule.declarations[2].name = <<"_", "g">>
    /\ ~Reported(runs[FALSE][1], TheModule.declarations[1], "PL001")
    /\ Reported(runs[FALSE][1], TheModule.declarations[2], "PL001")

\* C16: an empty literal __all__ yields no violation at all, while an absent
\* __all__ or one that is not a literal list/tuple of strings leaves the
\* underscore convention in charge
C16_EmptyAllIsNotAbsentAll ==
    /\ \A strict_mode \in BOOLEAN :
          (runs[strict_mode] # None /\ HasValidAll /\ TheModule.all_stmt.items = <<>>)
              => runs[strict_mode][1] = <<>>
    /\ (runs[FALSE] # None /\ ~HasValidAll)
          => \A decl \in DeclsOf(TheModule) :
                Reported(runs[FALSE][1], decl, "PL001")
                    <=> (Head(decl.name) \notin {"_", "__"}
                            /\ (decl.class = <<>> \/ Head(decl.class) # "_"))

C16_Witness ==
    /\ runs[FALSE] # None /\ runs[TRUE] # None
    /\ TheModule.all_stmt = [form |-> "list", items |-> <<>>]
    /\ Len(TheModule.declarations) = 2
    /\ TheModule.declarations[1].name = <<"f">>
    /\ runs[TRUE][1] = <<>>

\* C17: every violation of the non-strict run is a violation of the strict
\* run, and a dunder method has no violation in either
C17_StrictModeMonotone ==
    /\ (runs[FALSE] # None /\ runs[TRUE] # None)
          => \A i \in DOMAIN runs[FALSE][1] :
                \E j \in DOMAIN runs[TRUE][1] : runs[TRUE][1][j] = runs[FALSE][1][i]
    /\ \A strict_mode \in BOOLEAN :
          runs[strict_mode] # None
              => \A i \in DOMAIN runs[strict_mode][1] :
                    ~(Head(runs[strict_mode][1][i].function_name) = "__"
                        /\ runs[strict_mode][1][i].function_name[
                              Len(runs[strict_mode][1][i].function_name)] = "__")

C17_Witness ==
    /\ runs[FALSE] # None /\ runs[TRUE] # None
    /\ TheModule.all_stmt.form = "absent"
    /\ Len(TheModule.declarations) = 2
    /\ TheModule.declarations[1].name = <<"_", "g">>
    /\ TheModule.declarations[2].name = <<"__", "init", "__">>
    /\ runs[FALSE][1] = <<>>
    /\ Len(runs[TRUE][1]) >= 2

\* ---- modules tried for the suppression comments
Comments ==
    {NoComment,
     <<"#", "noqa", " ", "PL001">>,                                 \* #noqa PL001
     <<"#", "noqa", ":", " ", "PL001", ",", " ", "PL002">>,         \* #noqa: PL001, PL002
     <<"#", " ", " ", "noqa", " ", " ", ":", " ", " ", "PL001">>,   \* #  noqa  :  PL001
     <<"#", "noqa", " ", "PL001", " ", ",", " ", "PL002">>,         \* #noqa PL001 , PL002
     <<"#", " ", "see", " ", "PL003">>}                             \* # see PL003

Headers == {NoComment, <<"#", "noqa", " ", "PL003">>}

\* def f / def h / class K: m
NoqaDecls == <<Decl(<<"f">>, <<>>, 1), Decl(<<"h">>, <<>>, 3), Decl(<<"m">>, <<"K">>, 6)>>

Commented(ds) ==
    {[i \in DOMAIN ds |-> [ds[i] EXCEPT !.comment = cs[i]]] : cs \in [DOMAIN ds -> Comments]}

NoAll == [form |-> "absent", items |-> <<>>]

InitNoqa ==
    /\ project \in {Project(<<Module("src/m.py", h, NoAll, cds)>>, <<>>) :
                       h \in Headers,
                       cds \in UNION {Commented(ds) : ds \in SubSeqs(NoqaDecls, MaxDecls)}}
    /\ runs = [strict_mode \in BOOLEAN |-> None]
    /\ wrapperConfig \in EngineRules
    /\ lintCall = None
    /\ NoFixer /\ NoLoader /\ NoCli /\ NoLate

SpecNoqa == InitNoqa /\ [][NextEngine]_vars

\* ----------------------------------------------------------------- claim C19
Range(seq) == {seq[i] : i \in DOMAIN seq}

\* the rule ids a noqa comment lists
ListedRules(comment) ==
    IF "noqa" \in Range(comment) THEN Range(comment) \cap Range(AllRuleIds) ELSE {}

\* C19: for a declaration whose def line carries a noqa comment, no violation
\* of a listed rule is reported, the violations of the rules not listed are
\* reported for it, and the other declarations of the file keep theirs (a rule
\* is not expected when the rules table disables it or the file's first
\* comment suppresses it for the whole file)
C19_NoqaSuppressesListedRulesOnly ==
    \A strict_mode \in BOOLEAN :
        runs[strict_mode] # None
            => \A decl \in DeclsOf(TheModule) : \A k \in DOMAIN TestRules :
                  Reported(runs[strict_mode][1], decl, TestRules[k])
                      <=> /\ TestRules[k] \notin ListedRules(decl.comment)
                          /\ TestRules[k] \notin ListedRules(TheModule.header)
                          /\ is_rule_enabled(wrapperConfig, TestRules[k])

C19_Witness ==
    /\ runs[FALSE] # None
    /\ wrapperConfig = <<>>
    /\ TheModule.header = NoComment
    /\ Len(TheModule.declarations) = 2
    /\ TheModule.declarations[1].comment = <<"#", "noqa", " ", "PL001", " ", ",", " ", "PL002">>
    /\ TheModule.declarations[2].comment = NoComment
    /\ Len(runs[FALSE][1]) = 4
    /\ Reported(runs[FALSE][1], TheModule.declarations[1], "PL003")
    /\ Reported(runs[FALSE][1], TheModule.declarations[2], "PL001")

\* ---- projects tried for the tiers
TierDecls == <<Decl(<<"f">>, <<>>, 1), Decl(<<"m">>, <<"K">>, 4)>>

\* a test file whose functions carry the marker of the file's tier
MarkedContent(path, tests) ==
    LET tier == TierOfPath(path, DefaultConfig.test_directories)
    IN  Concat([i \in DOMAIN tests |->
                   IF tier \in Tiers THEN <<MarkLine(<<>>, tier), DefLine(<<>>)>>
                   ELSE <<DefLine(<<>>)>>])

TestModule(path, tests) ==
    [file_path |-> path, tests |-> tests, content |-> MarkedContent(path, tests)]

TestModules ==
    <<TestModule("test/e2e/test_m.py", <<<<"test_", "K", "_", "m">>>>),
      TestModule("test/integration/test_m.py", <<<<"test_", "f", "_", "edge">>>>),
      TestModule("test/unit/test_a.py", <<<<"test_", "other">>>>),
      TestModule("test/unit/test_m.py", <<<<"test_", "f">>>>),
      TestModule("tests/test_m.py", <<<<"test_", "f">>, <<"test_", "m">>>>)>>

InitTier ==
    /\ project \in {Project(<<Module("src/m.py", NoComment, NoAll, ds)>>, ts) :
                       ds \in SubSeqs(TierDecls, MaxDecls),
                       ts \in SubSeqs(TestModules, MaxTests)}
    /\ runs = [strict_mode \in BOOLEAN |-> None]
    /\ wrapperConfig \in EngineRules
    /\ lintCall = None
    /\ NoFixer /\ NoLoader /\ NoCli /\ NoLate

SpecTier == InitTier /\ [][NextEngine]_vars

\* ----------------------------------------------------------------- claim C20
\* the tier a test file lies in: the subdirectory of the test directory
Lies(path) == IF PathParts(path)[2] \in Tiers THEN PathParts(path)[2] ELSE "General"

\* a name-matching test of the declaration lies under the tier's subdirectory
\* or is a General-tier test
Satisfied(decl, tier) ==
    \E k \in DOMAIN project.tests :
        /\ Lies(project.tests[k].file_path) \in {tier, "General"}
        /\ \E j \in DOMAIN project.tests[k].tests : Covers(project.tests[k].tests[j], decl)

CountOf(run, decl, id) ==
    Cardinality({i \in DOMAIN run : /\ run[i].function_name = decl.name
                                     /\ run[i].line_number = decl.line
                                     /\ run[i].rule_name[1] = id})

\* C20: the rule of tier T reports a public declaration, once, exactly when no
\* name-matching test lies under the T subdirectory or in the General tier
C20_TierCorrelation ==
    \A strict_mode \in BOOLEAN :
        runs[strict_mode] # None
            => \A decl \in DeclsOf(TheModule) : \A k \in DOMAIN TestRules :
                  CountOf(runs[strict_mode][1], decl, TestRules[k]) =
                      IF ~Satisfied(decl, <<"unit", "integration", "e2e">>[k])
                         /\ is_rule_enabled(wrapperConfig, TestRules[k])
                      THEN 1 ELSE 0

C20_Witness ==
    /\ runs[FALSE] # None
    /\ wrapperConfig = <<>>
    /\ Len(project.tests) = 1
    /\ project.tests[1].file_path = "test/unit/test_m.py"
    /\ Len(TheModule.declarations) = 1
    /\ TheModule.declarations[1].name = <<"f">>
    /\ Len(runs[FALSE][1]) = 2
    /\ runs[FALSE][1][1].rule_name[1] = "PL002"
    /\ runs[FALSE][1][2].rule_name[1] = "PL003"

\* ---- projects tried for the order of the list
OrderDecls == <<Decl(<<"f">>, <<>>, 1), Decl(<<"h">>, <<>>, 3)>>

OrderModules(path) ==
    {<<>>} \cup {<<Module(path, NoComment, NoAll, ds)>> :
                    ds \in SubSeqs(OrderDecls, MaxDecls) \ {<<>>}}

\* test files with and without the marker of their tier
OrderTests ==
    {<<>>} \cup {<<[file_path |-> UnitFile, tests |-> <<<<"test_", "other">>>>, content |-> c]>> :
                    c \in {<<DefLine(<<>>)>>,
                           <<MarkLine(<<>>, "unit"), DefLine(<<>>)>>,
                           <<DefLine(<<>>), PassLine, DefLine(<<>>)>>}}

InitOrder ==
    /\ project \in {Project(a \o b, ts) :
                       a \in OrderModules("src/m.py"), b \in OrderModules("utils/n.py"),
                       ts \in OrderTests}
    /\ runs = [strict_mode \in BOOLEAN |-> None]
    /\ wrapperConfig \in EngineRules \cup {"PL004" :> Disabled}
    /\ lintCall = None
    /\ NoFixer /\ NoLoader /\ NoCli /\ NoLate

SpecOrder == InitOrder /\ [][NextEngine]_vars

\* ----------------------------------------------------------------- claim C14
\* C14: the list lint_project returns, PL004 violations included, is ordered
\* by (file path, line number, rule id)
C14_ListOrderedByKey ==
    \A strict_mode \in BOOLEAN :
        runs[strict_mode] # None
            => \A i, j \in DOMAIN runs[strict_mode][1] :
                  i < j => ~KeyLess(runs[strict_mode][1][j], runs[strict_mode][1][i])

\* ----------------------------------------------------------------- claim C27
\* C27: for every file in the map a fresh AutoFixer returns, the count is the
\* number of lines inserted into the file, a line_number past the end of the
\* file included
C27_CountIsLinesInserted ==
    (calls = 1 /\ returned # None)
        => \A f \in DOMAIN returned[1] :
              returned[1][f] = Len(disk[f]) - Len(orig[f])

\* ----------------------------------------------------------------- claim C29
\* the lines of a file without those at the positions K
RECURSIVE Without(_, _, _)
Without(lines, K, i) ==
    IF i > Len(lines) THEN <<>>
    ELSE (IF i \in K THEN <<>> ELSE <<lines[i]>>) \o Without(lines, K, i + 1)

\* C29: apply_fixes changes a file only by inserting whole lines: taking the
\* inserted decorator lines out of the rewritten file gives back the original
\* lines, content and line terminator, in the original order
C29_OnlyWholeLinesInserted ==
    calls = 1
        => \A f \in IOFiles :
              \E K \in SUBSET (1..Len(disk[f])) :
                  /\ \A k \in K : strip(disk[f][k]) = UnitMarker
                  /\ Without(disk[f], K, 1) = orig[f]

\* ----------------------------------------------------------------- claim C24
\* C24: for the fix of a lint pass, whose fix_line is the first line of the
\* target's decorator stack (the def line when there is none), the new
\* decorator is line fix_line of the rewritten file
C24_InsertedAtFixLine ==
    (calls = 1 /\ linted # None /\ Len(linted[1]) = 1)
        => /\ linted[1][1].fix_line[1] \in InsertedAt(Lines0, disk[UnitFile])
           /\ strip(disk[UnitFile][linted[1][1].fix_line[1]]) = linted[1][1].fix_content[1]

\* ----------------------------------------------------------------- claim C30
\* a rule entry in table form that RuleConfig rejects
InvalidTable(val) ==
    val.t = "table" /\ "enabled" \in DOMAIN V(val) /\ ~AcceptedBool(V(val)["enabled"])

\* C30: a rule table that fails validation makes load_from_file return the
\* defaults, so a rule disabled elsewhere in the file is enabled in the
\* result; an entry that is neither boolean nor table is passed over on its
\* own, the rules disabled elsewhere stay disabled
C30_InvalidRuleTableDiscardsFile ==
    (loaded # None /\ HasSection(cfgFile))
        => LET sec == SectionOf(cfgFile)
               rules == RulesOf(sec)
               cfg == loaded[1].config
           IN  /\ (\E id \in DOMAIN rules : InvalidTable(rules[id]))
                     => /\ ~loaded[1].exc
                        /\ cfg = DefaultConfig
                        /\ \A k \in DOMAIN AllRuleIds : is_rule_enabled(cfg.rules, AllRuleIds[k])
               /\ (RestValid(sec) /\ \E id \in DOMAIN rules : NeitherBoolNorTable(rules[id]))
                     => \A id \in DOMAIN rules :
                           (rules[id].t = "bool" /\ ~V(rules[id]))
                               => ~is_rule_enabled(cfg.rules, id)

C30_Witness ==
    /\ loaded # None
    /\ HasSection(cfgFile)
    /\ RulesOf(SectionOf(cfgFile)) =
          ("PL001" :> TTable("enabled" :> TStr("maybe")) @@ "PL002" :> TBool(FALSE))
    /\ "output_format" \notin DOMAIN SectionOf(cfgFile)
    /\ "test_directories" \notin DOMAIN SectionOf(cfgFile)
    /\ "fail_on_error" \notin DOMAIN SectionOf(cfgFile)
    /\ is_rule_enabled(loaded[1].config.rules, "PL002")
    /\ loaded[1].config = DefaultConfig

\* ================================================================ stop hook
\* json.load(sys.stdin) inside try/except: anything that is not JSON gives {}
HookData(input) ==
    IF input.kind = "invalid" THEN [kind |-> "object", fields |-> <<>>] ELSE input

\* data.get("stop_hook_active"): None when the key is missing
HookGet(data, key) == IF key \in DOMAIN data.fields THEN Some(data.fields[key]) ELSE None

\* re.search(r"TOTAL ... (\d+)%", result.stdout): 0 when there is no match
CoveragePercent(result) == IF result.coverage = None THEN 0 ELSE result.coverage[1]

\* the document the hook prints for a finished test run
Decision(result) ==
    LET has_test_failures == result.returncode # 0
        coverage_below_90 == CoveragePercent(result) < 90
    IN  IF has_test_failures \/ coverage_below_90
        THEN [decision |-> "block",
              reasons |-> (IF has_test_failures THEN <<"Tests failed">> ELSE <<>>)
                          \o (IF coverage_below_90 THEN <<"Coverage">> ELSE <<>>)]
        ELSE [decision |-> "approve", reasons |-> <<>>]

HookInputs ==
    {[kind |-> "invalid", fields |-> <<>>],                         \* not JSON
     [kind |-> "array", fields |-> <<>>],                           \* []
     [kind |-> "object", fields |-> <<>>],                          \* {}
     [kind |-> "object", fields |-> "stop_hook_active" :> TBool(TRUE)],
     [kind |-> "object", fields |-> "stop_hook_active" :> TBool(FALSE)]}

\* subprocess.run either cannot start the command or returns a result
Subprocesses ==
    {[started |-> FALSE, returncode |-> 0, coverage |-> None]}
    \cup [started : {TRUE}, returncode : {0, 1},
          coverage : {None, Some(60), Some(90), Some(95)}]

InitHook ==
    /\ stdin \in HookInputs
    /\ subproc \in Subprocesses
    /\ hook = [pc |-> "read", data |-> None, result |-> None, ran |-> 0]
    /\ printed = <<>>
    /\ exit_status = None
    /\ passes = <<>> /\ machine = <<>>
    /\ NoFixer /\ NoLoader /\ NoWrapper /\ NoCli /\ NoEngine

HookFrame == UNCHANGED <<stdin, subproc, passes, machine, fixVars, cfgVars, lintVars, cliVars, engineVars>>

\* lines 12-15
HookRead ==
    /\ hook.pc = "read"
    /\ hook' = [hook EXCEPT !.pc = "check", !.data = Some(HookData(stdin))]
    /\ UNCHANGED <<printed, exit_status>>
    /\ HookFrame

\* lines 18-19: data.get on what is not a dict raises AttributeError, which
\* ends the process with status 1
HookCheck ==
    /\ hook.pc = "check"
    /\ IF hook.data[1].kind # "object"
       THEN hook' = [hook EXCEPT !.pc = "done"] /\ exit_status' = Some(1)
       ELSE IF HookGet(hook.data[1], "stop_hook_active") # None
               /\ Truthy(HookGet(hook.data[1], "stop_hook_active")[1])
            THEN hook' = [hook EXCEPT !.pc = "done"] /\ exit_status' = Some(0)
            ELSE hook' = [hook EXCEPT !.pc = "run"] /\ UNCHANGED exit_status
    /\ UNCHANGED printed
    /\ HookFrame

\* lines 22-27: an OSError of subprocess.run is not caught
HookRun ==
    /\ hook.pc = "run"
    /\ IF subproc.started
       THEN /\ hook' = [hook EXCEPT !.pc = "decide", !.result = Some(subproc),
                                    !.ran = hook.ran + 1]
            /\ UNCHANGED exit_status
       ELSE /\ hook' = [hook EXCEPT !.pc = "done"]
            /\ exit_status' = Some(1)
    /\ UNCHANGED printed
    /\ HookFrame

\* lines 30-66
HookDecide ==
    /\ hook.pc = "decide"
    /\ printed' = Append(printed, Decision(hook.result[1]))
    /\ exit_status' = Some(0)
    /\ hook' = [hook EXCEPT !.pc = "done"]
    /\ HookFrame

NextHook == HookRead \/ HookCheck \/ HookRun \/ HookDecide

SpecHook == InitHook /\ [][NextHook]_vars

\* ----------------------------------------------------------------- claim C25
StopHookActive ==
    /\ stdin.kind = "object"
    /\ "stop_hook_active" \in DOMAIN stdin.fields
    /\ stdin.fields["stop_hook_active"] = TBool(TRUE)

\* C25: with stop_hook_active set the hook ends with status 0, without having
\* run the test subprocess or printed a decision; with any other input it has
\* run the test subprocess once and printed one decision when it ends
C25_HookCannotLoop ==
    exit_status # None
        => IF StopHookActive
           THEN exit_status = Some(0) /\ hook.ran = 0 /\ printed = <<>>
           ELSE /\ hook.ran = 1
                /\ Len(printed) = 1
                /\ printed[1].decision \in {"block", "approve"}

\* ------------------------------------------ one AutoFixer called several times
MaxCalls == 2       \* apply_fixes calls on one AutoFixer instance

RepeatViolations ==
    {[rule_name |-> PL004Name, file_path |-> p.f, line_number |-> p.n,
      fix_type |-> Some(p.t), fix_content |-> Some(UnitMarker), fix_line |-> Some(1)] :
        p \in {[f |-> UnitFile, n |-> 1, t |-> "add_decorator"],
               [f |-> UnitFile, n |-> 9, t |-> "add_decorator"],
               [f |-> OtherFile, n |-> 1, t |-> "add_decorator"],
               [f |-> OtherFile, n |-> 1, t |-> "replace_line"]}}

InitRepeat ==
    /\ disk \in [IOFiles -> {<<DefLine(<<>>)>>, <<FixtureLine(<<>>), DefLine(<<>>)>>}]
    /\ perm = [f \in IOFiles |-> "rw"]
    /\ applied_fixes = <<>>
    /\ returned = None
    /\ raised = FALSE
    /\ args = <<>>
    /\ orig = disk
    /\ calls = 0
    /\ linted = None
    /\ NoLoader /\ NoWrapper /\ NoCli /\ NoEngine /\ NoLate

\* the same AutoFixer is handed one more list of violations
CallAgain ==
    /\ calls < MaxCalls
    /\ \E vs \in ListsOf(RepeatViolations, MaxIOFixes) : apply_fixes(vs)
    /\ UNCHANGED linted

NextRepeat == CallAgain

SpecRepeat == InitRepeat /\ [][NextRepeat]_vars

\* ----------------------------------------------------------------- claim C26
CountBefore(f) == IF returned = None THEN 0 ELSE Count(returned[1], f)

\* C26: each call returns, for every file, the count returned by the call
\* before plus the add_decorator fixes of this call, so that the map holds the
\* total of all calls made on the instance so far
C26_CountsAccumulate ==
    [][\A f \in IOFiles :
          /\ returned' # None
          /\ Count(returned'[1], f) = CountBefore(f) + Len(AddFixes(args', f))]_vars

C26_Witness ==
    /\ calls = 2
    /\ returned # None
    /\ UnitFile \in DOMAIN returned[1]
    /\ returned[1][UnitFile] = 3
    /\ Len(AddFixes(args, UnitFile)) = 1
    /\ Len(disk[UnitFile]) = Len(orig[UnitFile]) + 1

\* ------------------------------------ the fixer with exceptions inside the loop
\* add_decorator fixes as any caller may build them: LintViolation.line_number
\* is an unconstrained int
AtomicViolations ==
    [rule_name : {PL004Name},
     file_path : {UnitFile},
     line_number : {-2, 0, 1, 2},
     fix_type : {Some("add_decorator")},
     fix_content : {Some(UnitMarker)},
     fix_line : {Some(1), Some(2)}]

InitAtomic ==
    /\ disk \in [{UnitFile} -> {<<>>, <<DefLine(<<>>)>>, <<FixtureLine(<<>>), DefLine(<<>>)>>}]
    /\ perm \in [{UnitFile} -> {"rw", "noread", "nowrite"}]
    /\ applied_fixes = <<>>
    /\ returned = None
    /\ raised = FALSE
    /\ args = <<>>
    /\ orig = disk
    /\ calls = 0
    /\ linted = None
    /\ NoLoader /\ NoWrapper /\ NoCli /\ NoEngine /\ NoLate

CallerFixAtomic ==
    /\ calls = 0
    /\ \E vs \in ListsOf(AtomicViolations, MaxFixes) : apply_fixes(vs)
    /\ UNCHANGED linted

NextAtomic == CallerFixAtomic

SpecAtomic == InitAtomic /\ [][NextAtomic]_vars

\* ----------------------------------------------------------------- claim C28
\* what _apply_fixes_to_file did in the call: the loop over the file's fixes
LoopOf(f) == ApplyLoop(readlines(orig[f]), SortedByFixLineDesc(GroupOf(args, f)), 0)

\* the call raised for the file before the write-back: the file could not be
\* read, or a fix raised inside the loop
RaisedBeforeWrite(f) ==
    /\ GroupOf(args, f) # <<>>
    /\ perm[f] = "noread" \/ LoopOf(f).exc

\* C28: when applying the fixes of a file raises before the write-back, the
\* file on disk is what it was before the call
C28_NoWriteBeforeLastFix ==
    calls = 1
        => \A f \in DOMAIN disk : RaisedBeforeWrite(f) => disk[f] = orig[f]

C28_Witness ==
    /\ calls = 1
    /\ perm[UnitFile] = "rw"
    /\ Len(args) = 2
    /\ LoopOf(UnitFile).exc
    /\ LoopOf(UnitFile).n = 1
    /\ Len(LoopOf(UnitFile).lines) = Len(orig[UnitFile]) + 1
    /\ disk[UnitFile] = orig[UnitFile]
    /\ ~raised

\* =================================================== two fix passes on one file
\* Each pass is a run of _apply_fixes_to_file by its own AutoFixer; its steps
\* are the read (lines 40-41), the loop over its fixes on the list in memory
\* (lines 45-51) and the write-back (lines 54-55).
Passes == {1, 2}

SlowMarker == <<"@", "pytest.mark.", "slow">>
PassMarker(p) == IF p = 1 THEN UnitMarker ELSE SlowMarker

\* mutant: a pass works on the lines the file had when the passes were set up
PassLines_stale(fs, file_path) == readlines(orig[file_path])

\* with open(file_path, 'r') as f: lines = f.readlines()
PassLines(fs, file_path) == readlines(fs[file_path])

DefLinesOf(content) == {i \in DOMAIN content : IsDefLine(content[i])}

\* the fixes a pass may carry: its marker for a function of the file
PassFixes(p, content) ==
    {[rule_name |-> PL004Name, file_path |-> UnitFile, line_number |-> i,
      fix_type |-> Some("add_decorator"), fix_content |-> Some(PassMarker(p)),
      fix_line |-> Some(StackTop(content, i))] : i \in DefLinesOf(content)}

PassFiles ==
    {<<DefLine(<<>>), PassLine, DefLine(<<>>)>>,
     <<FixtureLine(<<>>), DefLine(<<>>), PassLine, DefLine(<<>>)>>,
     <<DefLine(<<>>), DefLine(<<" ", " ">>)>>}

InitPasses ==
    /\ disk \in [{UnitFile} -> PassFiles]
    /\ orig = disk
    /\ perm = [f \in {UnitFile} |-> "rw"]
    /\ passes \in {[p \in Passes |-> [pc |-> "read", violations |-> vs[p], lines |-> <<>>,
                                      applied |-> 0, after |-> FALSE]] :
                      vs \in [Passes -> UNION {ListsOf(PassFixes(p, disk[UnitFile]), MaxFixes) \ {<<>>}
                                                  : p \in Passes}]}
    /\ \A p \in Passes : \A i \in DOMAIN passes[p].violations :
          passes[p].violations[i].fix_content = Some(PassMarker(p))
    /\ applied_fixes = <<>> /\ returned = None /\ raised = FALSE /\ args = <<>>
    /\ calls = 0 /\ linted = None
    /\ NoHook /\ machine = <<>>
    /\ NoLoader /\ NoWrapper /\ NoCli /\ NoEngine

PassFrame ==
    UNCHANGED <<perm, applied_fixes, returned, raised, args, orig, calls, linted,
                hookVars, machine, cfgVars, lintVars, cliVars, engineVars>>

\* after records whether the other pass had finished when this one read
PassRead(p) ==
    /\ passes[p].pc = "read"
    /\ passes' = [passes EXCEPT ![p].pc = "fix",
                                ![p].lines = PassLines(disk, UnitFile),
                                ![p].after = \A q \in Passes \ {p} : passes[q].pc = "done"]
    /\ UNCHANGED disk
    /\ PassFrame

PassFix(p) ==
    /\ passes[p].pc = "fix"
    /\ LET loop == ApplyLoop(passes[p].lines, SortedByFixLineDesc(passes[p].violations), 0)
       IN  passes' = [passes EXCEPT ![p].pc = "write",
                                    ![p].lines = loop.lines,
                                    ![p].applied = loop.n]
    /\ UNCHANGED disk
    /\ PassFrame

PassWrite(p) ==
    /\ passes[p].pc = "write"
    /\ disk' = [disk EXCEPT ![UnitFile] = passes[p].lines]
    /\ passes' = [passes EXCEPT ![p].pc = "done"]
    /\ PassFrame

NextPasses == \E p \in Passes : PassRead(p) \/ PassFix(p) \/ PassWrite(p)

SpecPasses == InitPasses /\ [][NextPasses]_vars

\* ----------------------------------------------------------------- claim C23
BothDone == \A p \in Passes : passes[p].pc = "done"

\* one pass read the file only after the other had written it
Serialized == \E p \in Passes : passes[p].after

\* the lines of the file that carry the marker of pass p
InsertionsOf(p) == {i \in DOMAIN disk[UnitFile] : strip(disk[UnitFile][i]) = PassMarker(p)}

\* C23: when the two passes are serialized the final file holds the
\* insertions of both; the file can lack the insertions of a pass (the state
\* C23_LostUpdate) only when the passes interleaved
C23_SerializedKeepsBoth ==
    (BothDone /\ Serialized)
        => \A p \in Passes : Cardinality(InsertionsOf(p)) = Len(passes[p].violations)

C23_LostUpdate ==
    /\ BothDone
    /\ ~Serialized
    /\ \E p \in Passes : InsertionsOf(p) = {} /\ passes[p].applied >= 1
    /\ \E p \in Passes : Cardinality(InsertionsOf(p)) = Len(passes[p].violations)

\* ===================================================== the engine's run, by step
\* Init -> Discover -> ParseAll -> Evaluate -> Suppress -> Emit; the files are
\* parsed and evaluated one by one, in any order.

\* mutant: a parse failure ends the run
PhaseAfterParseFailure_abort == "Aborted"

\* a parse failure leaves the run in ParseAll, only the file is Skipped
PhaseAfterParseFailure == "ParseAll"

SourcePaths(proj) == {proj.sources[i].file_path : i \in DOMAIN proj.sources}
SourceAt(proj, path) ==
    proj.sources[CHOOSE i \in DOMAIN proj.sources : proj.sources[i].file_path = path]

\* Evaluate looks at the declarations only, the noqa comments are the
\* business of Suppress
WithoutComments(module) ==
    [module EXCEPT !.header = NoComment,
                   !.declarations = [i \in DOMAIN module.declarations |->
                                        [module.declarations[i] EXCEPT !.comment = NoComment]]]

Suppress(violations, proj) ==
    SelectSeq(violations, LAMBDA v :
        ~\E i \in DOMAIN proj.sources : \E j \in DOMAIN proj.sources[i].declarations :
            /\ proj.sources[i].file_path = v.file_path
            /\ proj.sources[i].declarations[j].line = v.line_number
            /\ Suppressed(proj.sources[i], proj.sources[i].declarations[j], v.rule_name[1]))

MachineModules(path) ==
    {Module(path, NoComment, NoAll, <<[Decl(<<"f">>, <<>>, 1) EXCEPT !.comment = c]>>) :
        c \in {NoComment, <<"#", "noqa", " ", "PL001">>}}

InitMachine ==
    /\ project \in {[unparsable |-> bad] @@ Project(<<a, b>>, ts) :
                       a \in MachineModules("src/m.py"), b \in MachineModules("utils/n.py"),
                       bad \in SUBSET {"src/m.py", "utils/n.py"},
                       ts \in {<<>>, <<TestModule("test/unit/test_m.py", <<<<"test_", "f">>>>)>>}}
    /\ machine \in [phase : {"Init"}, strict_mode : BOOLEAN, files : {<<>>},
                    found : {<<>>}, emitted : {None}]
    /\ runs = <<>>
    /\ NoHook /\ passes = <<>>
    /\ NoFixer /\ NoLoader /\ NoWrapper /\ NoCli

MachineFrame ==
    UNCHANGED <<project, runs, lintVars, hookVars, passes, fixVars, cfgVars, cliVars>>

Discover ==
    /\ machine.phase = "Init"
    /\ machine' = [machine EXCEPT !.phase = "Discover",
                                  !.files = [p \in SourcePaths(project) |-> "Pending"]]
    /\ MachineFrame

ParseAll ==
    /\ machine.phase = "Discover"
    /\ machine' = [machine EXCEPT !.phase = "ParseAll"]
    /\ MachineFrame

ParseFile(path) ==
    /\ machine.phase = "ParseAll"
    /\ machine.files[path] = "Pending"
    /\ IF path \in project.unparsable
       THEN machine' = [machine EXCEPT !.files[path] = "Skipped",
                                       !.phase = PhaseAfterParseFailure]
       ELSE machine' = [machine EXCEPT !.files[path] = "Parsed"]
    /\ MachineFrame

Evaluate ==
    /\ machine.phase = "ParseAll"
    /\ \A p \in DOMAIN machine.files : machine.files[p] # "Pending"
    /\ machine' = [machine EXCEPT !.phase = "Evaluate"]
    /\ MachineFrame

EvaluateFile(path) ==
    /\ machine.phase = "Evaluate"
    /\ machine.files[path] = "Parsed"
    /\ machine' = [machine EXCEPT
                      !.files[path] = "Evaluated",
                      !.found = @ \o EvaluateModule(WithoutComments(SourceAt(project, path)),
                                                    project, machine.strict_mode)]
    /\ MachineFrame

SuppressAll ==
    /\ machine.phase = "Evaluate"
    /\ \A p \in DOMAIN machine.files : machine.files[p] # "Parsed"
    /\ machine' = [machine EXCEPT !.phase = "Suppress",
                                  !.found = Suppress(machine.found, project)]
    /\ MachineFrame

\* the merge step: the sorted list is the result of the run
Emit ==
    /\ machine.phase = "Suppress"
    /\ machine' = [machine EXCEPT !.phase = "Emit",
                                  !.emitted = Some(SortByKey(machine.found))]
    /\ MachineFrame

NextMachine ==
    \/ Discover
    \/ ParseAll
    \/ \E path \in DOMAIN machine.files : ParseFile(path)
    \/ Evaluate
    \/ \E path \in DOMAIN machine.files : EvaluateFile(path)
    \/ SuppressAll
    \/ Emit

\* every worker that can take a step eventually takes one
SpecMachine == InitMachine /\ [][NextMachine]_vars /\ WF_vars(NextMachine)

\* ----------------------------------------------------------------- claim C22
\* the modules of the project that parse
Parsable == SelectSeq(project.sources, LAMBDA m : m.file_path \notin project.unparsable)

\* C22: every run reaches Emit, and the list it returns holds the violations
\* of all the files that parse, whichever files were skipped and in whatever
\* order the files were processed
C22_RunReachesEmit ==
    <>(/\ machine.phase = "Emit"
       /\ \A p \in DOMAIN machine.files :
             machine.files[p] = IF p \in project.unparsable THEN "Skipped" ELSE "Evaluated"
       /\ machine.emitted
             = Some(engine_lint_project(project, machine.strict_mode, Parsable)))

C22_Witness ==
    /\ machine.phase = "Emit"
    /\ machine.files["src/m.py"] = "Skipped"
    /\ machine.files["utils/n.py"] = "Evaluated"
    /\ machine.emitted # None
    /\ Len(machine.emitted[1]) = 2
    /\ \A i \in 1..2 : machine.emitted[1][i].file_path = "utils/n.py"

\* ------------------------------------------------------------ Marker Validator
\* The Marker Validator over the declarations the Test Parser yields: the
\* visibility of a test is resolved as for a source declaration, applied to
\* the test module.  The files of the fixer runs above hold only public
\* top-level test functions, for which this validator and the line scan agree.
LongMarker(name) == <<"@", "pytest.mark.", name>>
ShortMarker(name) == <<"@", "mark.", name>>

\* a test declaration: Decl plus the decorator stack above the def and whether
\* the def is local to a function body
TestDecl(name, class, line, nested) ==
    [name |-> name, class |-> class, line |-> line, comment |-> NoComment,
     nested |-> nested, decorators |-> <<>>]

\* mutant: only the long form names a marker
MarkerNames_long(decorators) ==
    {decorators[k][3] : k \in {k \in DOMAIN decorators :
        /\ Len(decorators[k]) >= 3
        /\ decorators[k][1] = "@"
        /\ decorators[k][2] \in {"pytest.mark."}}}

\* markers: the names of the decorators of the form @pytest.mark.<name> or
\* @mark.<name>
MarkerNames(decorators) ==
    {decorators[k][3] : k \in {k \in DOMAIN decorators :
        /\ Len(decorators[k]) >= 3
        /\ decorators[k][1] = "@"
        /\ decorators[k][2] \in {"pytest.mark.", "mark."}}}

\* the violation fired for a test that lacks the marker of its tier; the fix
\* goes to the first line of the decorator stack
MissingMarker(path, decl, tier) ==
    [rule_name |-> PL004Name,
     file_path |-> path,
     line_number |-> decl.line,
     function_name |-> decl.name,
     fix_type |-> Some("add_decorator"),
     fix_content |-> Some(LongMarker(tier)),
     fix_line |-> Some(decl.line - Len(decl.decorators))]

\* the tests of a module the validator requires a marker of
RequiresMarker(test_module, decl, tier, strict_mode) ==
    /\ ~decl.nested
    /\ Evaluated(test_module, decl, strict_mode)
    /\ tier \in Tiers
    /\ tier \notin MarkerNames(decl.decorators)

RECURSIVE ValidateMarkers(_, _, _, _)
ValidateMarkers(test_module, i, tier, strict_mode) ==
    IF i > Len(test_module.declarations) THEN <<>>
    ELSE (IF RequiresMarker(test_module, test_module.declarations[i], tier, strict_mode)
          THEN <<MissingMarker(test_module.file_path, test_module.declarations[i], tier)>>
          ELSE <<>>)
         \o ValidateMarkers(test_module, i + 1, tier, strict_mode)

\* PL004 over the parsed test modules of a project, sorted
engine_validate_markers(proj, strict_mode) ==
    SortByKey(Concat([k \in DOMAIN proj.tests |->
        ValidateMarkers(proj.tests[k], 1,
                        TierOfPath(proj.tests[k].file_path, proj.test_directories),
                        strict_mode)]))

\* lint_project of a wrapper whose engine was built with strict_mode, over a
\* project whose test modules are parsed
MarkerRun(strict_mode) ==
    /\ runs[strict_mode] = None
    /\ \E completed \in CompletionOrders(project.sources) :
          runs' = [runs EXCEPT ![strict_mode] =
                      Some(lint_project_result(wrapperConfig,
                              engine_lint_project(project, strict_mode, completed),
                              engine_validate_markers(project, strict_mode)))]
    /\ UNCHANGED <<project, wrapperConfig, lintCall, fixVars, cfgVars, cliVars, lateVars>>

MarkersPublicOnly == MarkerRun(FALSE)
MarkersStrict == MarkerRun(TRUE)

NextMarkers == MarkersPublicOnly \/ MarkersStrict

\* ---- test modules tried for the Marker Validator
\* def test_f / def _test_h / class TestK: test_m / class _TestP: test_q /
\* def test_inner local to a function body
MarkerDecls ==
    <<TestDecl(<<"test_", "f">>, <<>>, 3, FALSE),
      TestDecl(<<"_", "test_", "h">>, <<>>, 6, FALSE),
      TestDecl(<<"test_", "m">>, <<"Test", "K">>, 10, FALSE),
      TestDecl(<<"test_", "q">>, <<"_", "Test", "P">>, 14, FALSE),
      TestDecl(<<"test_", "inner">>, <<>>, 18, TRUE)>>

DecoratorStacks ==
    {<<>>, <<LongMarker("unit")>>, <<ShortMarker("unit")>>, <<LongMarker("integration")>>,
     <<ShortMarker("e2e")>>, <<LongMarker("integration"), LongMarker("unit")>>,
     <<<<"@", "staticmethod">>>>}

Decorated(ds) ==
    {[i \in DOMAIN ds |-> [ds[i] EXCEPT !.decorators = st[i]]] :
        st \in [DOMAIN ds -> DecoratorStacks]}

MarkerPaths ==
    {"test/unit/test_m.py", "test/integration/test_m.py", "test/e2e/test_m.py",
     "test/helpers/test_m.py", "tests/test_m.py"}

ConfiguredTestDirectories == {DefaultConfig.test_directories, <<"tests">>}

InitMarkers ==
    /\ project \in
         {[Project(<<Module("src/m.py", NoComment, NoAll, <<>>)>>,
                   <<Module(path, NoComment, NoAll, dds)>>)
             EXCEPT !.test_directories = td] :
             path \in MarkerPaths,
             td \in ConfiguredTestDirectories,
             dds \in UNION {Decorated(ds) : ds \in SubSeqs(MarkerDecls, MaxDecls)}}
    /\ runs = [strict_mode \in BOOLEAN |-> None]
    /\ wrapperConfig = <<>>
    /\ lintCall = None
    /\ NoFixer /\ NoLoader /\ NoCli /\ NoLate

SpecMarkers == InitMarkers /\ [][NextMarkers]_vars

\* ----------------------------------------------------------------- claim C21
TestFile == project.tests[1]

\* the test carries the marker of the tier in one of the two forms
Carries(decl, tier) ==
    \E k \in DOMAIN decl.decorators :
        decl.decorators[k] \in {LongMarker(tier), ShortMarker(tier)}

PrivateTest(decl) == Underscore(decl.name) \/ Underscore(decl.class)

OutsideTestDirectories(path) ==
    \A k \in DOMAIN project.test_directories :
        project.test_directories[k] # PathParts(path)[1]

\* the PL004 violations a run reports for one test
ReportedFor(run, decl) ==
    Cardinality({i \in DOMAIN run :
        /\ run[i].rule_name = PL004Name
        /\ run[i].file_path = TestFile.file_path
        /\ run[i].line_number = decl.line
        /\ run[i].function_name = decl.name})

\* a public test under a tier subdirectory of a test directory, without the
\* marker of that tier
PublicUnmarked(decl) ==
    /\ ~PrivateTest(decl)
    /\ ~decl.nested
    /\ ~OutsideTestDirectories(TestFile.file_path)
    /\ Lies(TestFile.file_path) \in Tiers
    /\ ~Carries(decl, Lies(TestFile.file_path))

\* C21: every run reports exactly one PL004 violation for each public test
\* function that lies under a tier subdirectory and lacks the marker of that
\* tier, and none for a test that carries the marker in the long or the short
\* form, for a private test (underscore name or private class), for a nested
\* function, or for a test outside the configured test directories
C21_PL004Exact ==
    \A strict_mode \in BOOLEAN :
        runs[strict_mode] # None =>
            \A i \in DOMAIN TestFile.declarations :
                ReportedFor(runs[strict_mode][1], TestFile.declarations[i])
                    = IF PublicUnmarked(TestFile.declarations[i]) THEN 1 ELSE 0

\* C21 (amended): the same, where a private test is exempt in a run that is
\* not strict only; a strict run reports an unmarked private test as it
\* reports a public one
C21_PL004ExactPerMode ==
    \A strict_mode \in BOOLEAN :
        runs[strict_mode] # None =>
            \A i \in DOMAIN TestFile.declarations :
                LET decl == TestFile.declarations[i]
                    tier == Lies(TestFile.file_path)
                IN  ReportedFor(runs[strict_mode][1], decl)
                      = IF /\ strict_mode \/ ~PrivateTest(decl)
                           /\ ~decl.nested
                           /\ ~OutsideTestDirectories(TestFile.file_path)
                           /\ tier \in Tiers
                           /\ ~Carries(decl, tier)
                        THEN 1 ELSE 0

\* a run that is not strict reported a public test with the marker of another
\* tier and passed over a test with the short form of its own
C21_Witness ==
    /\ runs[FALSE] # None
    /\ Lies(TestFile.file_path) = "unit"
    /\ \E i, j \in DOMAIN TestFile.declarations :
          /\ TestFile.declarations[i].decorators = <<LongMarker("integration")>>
          /\ ReportedFor(runs[FALSE][1], TestFile.declarations[i]) = 1
          /\ TestFile.declarations[j].decorators = <<ShortMarker("unit")>>
          /\ ~PrivateTest(TestFile.declarations[j])
          /\ ~TestFile.declarations[j].nested
          /\ ReportedFor(runs[FALSE][1], TestFile.declarations[j]) = 0

====
